---- MODULE Spec2Model ----
(***************************************************************************)
(* A model of mm-geofeed-verifier: verify.ProcessGeofeed and               *)
(* verify.verifyCorrection (src/verify/verify.go, lines 369-805).          *)
(*                                                                         *)
(* Go strings are sequences of one-character strings, so that trimming,    *)
(* searching, joining and case folding are computed and not assumed.       *)
(* Formatted text (fmt.Sprintf) is a record of the format and the values   *)
(* substituted into it.  The bytes of a file are numbers in 0..255.        *)
(*                                                                         *)
(* The command (src/unnamed/part_001: main, run, parseFlags) is modelled   *)
(* around it: ParseFlags before ProcessGeofeed is called, Report after it  *)
(* has returned.                                                           *)
(***************************************************************************)
EXTENDS Integers, Sequences, FiniteSets, TLC

VARIABLES
    opts,        \* Options: LaxMode, HideFilePathsInErrorMessages, EmptyOK
    ispFilename, \* "" when no ISP database is configured
    db,          \* the opened city database: address -> lookup outcome
    ispdb,       \* the opened ISP database, or Nil
    pc,          \* position: "main" (in run, before parseFlags), "start"
                 \* (ProcessGeofeed called), "loop", "fatal" (returned
                 \* before the end of the file), "done" (returned after
                 \* it) or "exit" (the process has ended)
    c,           \* CheckResult
    diffLines,   \* []string
    asnCounts,   \* map[uint]int
    err,         \* the error ProcessGeofeed returns
    skipped,     \* comment and blank lines the CSV reader has passed over
    delivered,   \* records the CSV reader has returned
    row,         \* the row the last csvReader.Read() delivered
    result,      \* what the loop body computed for that row
    geofeedData, \* before the file is read, the bytes it holds; after, the
                 \* variable geofeedData of ProcessGeofeed
    args,        \* os.Args[1:]
    conf,        \* the *config parseFlags returned to run
    stdout,      \* what was printed with fmt.Print*
    log,         \* what was printed with log.Print* and log.Fatal
    exit         \* the exit status of the process

\* the variables of the command
cli == <<args, conf, stdout, log, exit>>

vars == <<opts, ispFilename, db, ispdb, pc, c, diffLines, asnCounts, err,
          skipped, delivered, row, result, geofeedData, args, conf, stdout,
          log, exit>>

(***************************************************************************)
(* Bounds of the model.                                                    *)
(***************************************************************************)
MaxRows == 3
MaxSkipped == 1
MaxData == 4
MaxArgs == 4

(***************************************************************************)
(* Strings.                                                                *)
(***************************************************************************)
Empty == << >>

UpperChars == <<"A","B","C","D","E","F","G","H","I","J","K","L","M",
                "N","O","P","Q","R","S","T","U","V","W","X","Y","Z">>
LowerChars == <<"a","b","c","d","e","f","g","h","i","j","k","l","m",
                "n","o","p","q","r","s","t","u","v","w","x","y","z">>

LowerOf == [ch \in {UpperChars[i] : i \in 1..26} |->
               LowerChars[CHOOSE i \in 1..26 : UpperChars[i] = ch]]

ToLowerChar(ch) == IF ch \in DOMAIN LowerOf THEN LowerOf[ch] ELSE ch

\* strings.EqualFold, on the ASCII range
EqualFold(s, t) ==
    /\ Len(s) = Len(t)
    /\ \A i \in 1..Len(s) : ToLowerChar(s[i]) = ToLowerChar(t[i])

\* strings.Contains(s, ch) for a one-character ch
Contains(s, ch) == \E i \in 1..Len(s) : s[i] = ch

IsSpace(ch) == ch \in {" ", "\t", "\n", "\r"}

RECURSIVE TrimLeft(_)
TrimLeft(s) ==
    IF s # Empty /\ IsSpace(Head(s)) THEN TrimLeft(Tail(s)) ELSE s

RECURSIVE TrimRight(_)
TrimRight(s) ==
    IF s # Empty /\ IsSpace(s[Len(s)])
    THEN TrimRight(SubSeq(s, 1, Len(s) - 1))
    ELSE s

\* strings.TrimSpace
TrimSpace(s) == TrimRight(TrimLeft(s))

\* strings.Join(fields, ",")
RECURSIVE Join(_)
Join(fields) ==
    IF fields = << >> THEN Empty
    ELSE IF Len(fields) = 1 THEN fields[1]
    ELSE fields[1] \o <<",">> \o Join(Tail(fields))

\* the index of the last ch in s, 0 when there is none
RECURSIVE LastIndexFrom(_, _, _)
LastIndexFrom(s, ch, i) ==
    IF i = 0 THEN 0
    ELSE IF s[i] = ch THEN i
    ELSE LastIndexFrom(s, ch, i - 1)

LastIndex(s, ch) == LastIndexFrom(s, ch, Len(s))

DigitValues == [ch \in {"0","1","2","3","4","5","6","7","8","9"} |->
                   CHOOSE v \in 0..9 :
                       <<"0","1","2","3","4","5","6","7","8","9">>[v + 1] = ch]
IsDigit(ch) == ch \in DOMAIN DigitValues
DigitVal(ch) == DigitValues[ch]

RECURSIVE Atoi(_)
Atoi(s) ==
    IF s = Empty THEN 0
    ELSE 10 * Atoi(SubSeq(s, 1, Len(s) - 1)) + DigitVal(s[Len(s)])

(***************************************************************************)
(* Text used by the rows and the reference records.                        *)
(***************************************************************************)
AddrV6Test == <<"2","a","0","2",":","e","c","c","0",":",":">>
AddrV4Test == <<"1","9","2",".","0",".","2",".","1">>
AddrV6Doc == <<"2","0","0","1",":","d","b","8",":",":","1">>
AddrV4NoCity == <<"1","9","8",".","5","1",".","1","0","0",".","7">>
AddrV4NoIsp == <<"2","0","3",".","0",".","1","1","3",".","9">>
sUS == <<"U","S">>
sUs == <<"u","s">>
sGB == <<"G","B">>
sFR == <<"F","R">>
sNJ == <<"N","J">>
sNj == <<"n","j">>
sUSNJ == <<"U","S","-","N","J">>
sUsNj == <<"u","s","-","n","j">>
sENG == <<"E","N","G">>
sWBK == <<"W","B","K">>
sGBWBK == <<"G","B","-","W","B","K">>
sParsippany == <<"P","a","r","s","i","p","p","a","n","y">>
sParsippanyLower == <<"p","a","r","s","i","p","p","a","n","y">>
sBoxford == <<"B","o","x","f","o","r","d">>
sParis == <<"P","a","r","i","s">>
s34021 == <<"3","4","0","2","1">>
s1060 == <<"1","0","6","0">>
sOX1 == <<"O","X","1">>
sOx1 == <<"o","x","1">>
s75001 == <<"7","5","0","0","1">>
sNet == <<"E","x","a","m","p","l","e","N","e","t">>
sIsp == <<"E","x","a","m","p","l","e","I","S","P">>
sBadNet == <<"2","a","0","2",":","/","2","9">>
sSlash29 == <<"/","2","9">>
sSlash24 == <<"/","2","4">>
sSlash33 == <<"/","3","3">>
sSlash32 == <<"/","3","2">>
sSlash64 == <<"/","6","4">>
sSpace == <<" ">>
sExtra == <<"e","x","t","r","a">>

(***************************************************************************)
(* Bytes.  bytes.TrimPrefix with the byte-order mark, and utf8.Valid with  *)
(* the ranges of the first and second byte of each encoding length.        *)
(***************************************************************************)
\* []byte{0xEF, 0xBB, 0xBF}
BOM == <<239, 187, 191>>

\* bytes.TrimPrefix(data, prefix)
TrimPrefix(data, prefix) ==
    IF Len(data) >= Len(prefix) /\ SubSeq(data, 1, Len(prefix)) = prefix
    THEN SubSeq(data, Len(prefix) + 1, Len(data))
    ELSE data

\* a continuation byte, 0x80..0xBF
IsContinuation(b) == b \in 128..191

\* the second bytes a first byte allows (utf8.acceptRanges)
SecondBytes(first) ==
    IF first = 224 THEN 160..191
    ELSE IF first = 237 THEN 128..159
    ELSE IF first = 240 THEN 144..191
    ELSE IF first = 244 THEN 128..143
    ELSE 128..191

\* a variant that takes every byte above 0x7F for a character of its own
RuneLenLatin1(data) == 1

\* the length of the encoding data starts with, 0 if it starts with none
RuneLen(data) ==
    IF data[1] < 128 THEN 1
    ELSE IF data[1] \in 194..223
    THEN IF Len(data) >= 2 /\ IsContinuation(data[2]) THEN 2 ELSE 0
    ELSE IF data[1] \in 224..239
    THEN IF /\ Len(data) >= 3
            /\ data[2] \in SecondBytes(data[1])
            /\ IsContinuation(data[3])
         THEN 3 ELSE 0
    ELSE IF data[1] \in 240..244
    THEN IF /\ Len(data) >= 4
            /\ data[2] \in SecondBytes(data[1])
            /\ IsContinuation(data[3])
            /\ IsContinuation(data[4])
         THEN 4 ELSE 0
    ELSE 0

\* utf8.Valid
RECURSIVE Utf8Valid(_)
Utf8Valid(data) ==
    IF data = << >> THEN TRUE
    ELSE IF RuneLen(data) = 0 THEN FALSE
    ELSE Utf8Valid(SubSeq(data, RuneLen(data) + 1, Len(data)))

(***************************************************************************)
(* errors.go: the file-level errors and the kinds of row invalidity.       *)
(***************************************************************************)
ErrNotUTF8 == "geofeed is not valid UTF-8"
ErrInvalidGeofeed == "geofeed does not comply with the RFC 8805 standards"
ErrEmptyGeofeed == "geofeed is empty"

FewerFieldsThanExpected == 0
EmptyNetwork == 1
UnableToParseNetwork == 2
UnableToFindCityRecord == 3
UnableToFindISPRecord == 4
InvalidRegionCode == 5
\* RowInvalidity(-1), the invalidityType of a valid row
NoInvalidity == -1

RowInvalidity == FewerFieldsThanExpected..InvalidRegionCode

expectedFieldsPerRecord == 5

(***************************************************************************)
(* net/netip.ParsePrefix.  ParseAddr is a table of the address literals    *)
(* the rows use; the split at the last '/', the digits of the prefix       *)
(* length and its range are computed.                                      *)
(***************************************************************************)
V4Addrs == {AddrV4Test, AddrV4NoCity, AddrV4NoIsp}
V6Addrs == {AddrV6Test, AddrV6Doc}

ParseAddrOK(s) == s \in V4Addrs \cup V6Addrs

PrefixAddr(s) == SubSeq(s, 1, LastIndex(s, "/") - 1)
PrefixBits(s) == SubSeq(s, LastIndex(s, "/") + 1, Len(s))

BitsOK(bitsStr, maxBits) ==
    /\ bitsStr # Empty
    /\ \A i \in 1..Len(bitsStr) : IsDigit(bitsStr[i])
    /\ ~(Len(bitsStr) > 1 /\ bitsStr[1] = "0")
    /\ Atoi(bitsStr) <= maxBits

\* err == nil of netip.ParsePrefix(s)
ParsePrefixOK(s) ==
    /\ LastIndex(s, "/") > 0
    /\ ParseAddrOK(PrefixAddr(s))
    /\ BitsOK(PrefixBits(s), IF PrefixAddr(s) \in V6Addrs THEN 128 ELSE 32)

(***************************************************************************)
(* The MMDB readers.  A database maps addresses to the outcome of a        *)
(* lookup; an address it does not hold decodes to the zero values without  *)
(* an error.  A reader is << >> (a nil pointer) or <<table>>.              *)
(***************************************************************************)
CityRecord(country, subdivisions, city, postal) ==
    [err |-> "", country |-> country,
     subdivisions |-> subdivisions, city |-> city, postal |-> postal]

CityError ==
    [err |-> "lookup error", country |-> Empty,
     subdivisions |-> << >>, city |-> Empty, postal |-> Empty]

CityNotFound == CityRecord(Empty, << >>, Empty, Empty)

IspRecord(asn, org, isp) ==
    [err |-> "", AutonomousSystemNumber |-> asn,
     AutonomousSystemOrganization |-> org, ISP |-> isp]

IspError == [err |-> "lookup error", AutonomousSystemNumber |-> 0,
             AutonomousSystemOrganization |-> Empty, ISP |-> Empty]

IspNotFound == IspRecord(0, Empty, Empty)

NilReader == << >>

\* db.Lookup(addr)
Lookup(reader, addr, notFound) ==
    IF addr \in DOMAIN reader[1] THEN reader[1][addr] ELSE notFound

\* a variant that takes the least specific subdivision
LeastSpecific(subdivisions) ==
    IF subdivisions = << >> THEN Empty ELSE subdivisions[1]

\* result.DecodePath(&v, "subdivisions", -1, "iso_code")
MostSpecific(subdivisions) ==
    IF subdivisions = << >> THEN Empty ELSE subdivisions[Len(subdivisions)]

(***************************************************************************)
(* verifyCorrection (verify.go 561-805).                                   *)
(***************************************************************************)
\* fmt.Sprintf of an invalidity reason: the format and what it is given
Reason(text, network, e, r) ==
    [text |-> text, network |-> network, err |-> e, row |-> r]

NoReason == Reason("", Empty, "", Empty)

\* one line of a diff text: the format and what it is given
Line(label, current, suggested, n) ==
    [label |-> label, current |-> current, suggested |-> suggested, n |-> n]

InvalidResult(kind, reason, asn) ==
    [diffLine |-> << >>, valid |-> FALSE, invalidityType |-> kind,
     invalidityReason |-> reason, asnCounts |-> asn]

ValidResult(diffLine, asn) ==
    [diffLine |-> diffLine, valid |-> TRUE, invalidityType |-> NoInvalidity,
     invalidityReason |-> NoReason, asnCounts |-> asn]

\* a variant that takes a bare IPv6 address for a single host
NormalizeNetworkHost128(networkOrIP) ==
    IF ~Contains(networkOrIP, "/")
    THEN IF Contains(networkOrIP, ":")
         THEN networkOrIP \o <<"/","1","2","8">>
         ELSE networkOrIP \o sSlash32
    ELSE networkOrIP

\* lines 590-596
NormalizeNetwork(networkOrIP) ==
    IF ~Contains(networkOrIP, "/")
    THEN IF Contains(networkOrIP, ":")
         THEN networkOrIP \o sSlash64
         ELSE networkOrIP \o sSlash32
    ELSE networkOrIP

\* line 668-669: the subdivision the region field is compared with
ComparableSubdivision(region, countryCode, mostSpecificSubdivision) ==
    IF Contains(region, "-")
    THEN countryCode \o <<"-">> \o mostSpecificSubdivision
    ELSE mostSpecificSubdivision

\* a variant that rejects a bare region code in lax mode too
RegionCodeRejectedInBothModes(region, laxMode) ==
    ~Contains(region, "-") /\ region # Empty

\* a variant with the mode inverted
RegionCodeRejectedInLax(region, laxMode) ==
    ~Contains(region, "-") /\ region # Empty /\ laxMode

\* line 670: the strict-mode gate
RegionCodeRejected(region, laxMode) ==
    ~Contains(region, "-") /\ region # Empty /\ ~laxMode

\* lines 707-709
CountASN(asn, asNumber) ==
    IF asNumber > 0
    THEN IF asNumber \in DOMAIN asn
         THEN [asn EXCEPT ![asNumber] = @ + 1]
         ELSE (asNumber :> 1) @@ asn
    ELSE asn

\* a variant that takes an empty field of the row as no opinion
FieldDiffersUnlessEmpty(value, reference) ==
    value # Empty /\ ~EqualFold(value, reference)

\* a variant that compares the case of the letters too
FieldDiffersExactly(value, reference) == value # reference

\* line 716, 729, 742
FieldDiffers(value, reference) == ~EqualFold(value, reference)

\* a variant that compares an empty postal code too
PostalDiffersEvenIfEmpty(postal, postalCode) ==
    ~EqualFold(postal, postalCode)

\* line 758
PostalDiffers(postal, postalCode) ==
    postal # Empty /\ ~EqualFold(postal, postalCode)

\* a variant that prints the postal code of the row as the current one
FragmentsSuggestedFirst(correction, countryCode, subdivision, cityName, postalCode) ==
    (IF FieldDiffers(correction[2], countryCode)
     THEN <<Line("country", countryCode, correction[2], 0)>> ELSE << >>)
    \o
    (IF FieldDiffers(correction[3], subdivision)
     THEN <<Line("region", subdivision, correction[3], 0)>> ELSE << >>)
    \o
    (IF FieldDiffers(correction[4], cityName)
     THEN <<Line("city", cityName, correction[4], 0)>> ELSE << >>)
    \o
    (IF PostalDiffers(correction[5], postalCode)
     THEN <<Line("postal code", correction[5], postalCode, 0)>> ELSE << >>)

\* lines 711-769: the fragments of the fields that differ, in order
Fragments(correction, countryCode, subdivision, cityName, postalCode) ==
    (IF FieldDiffers(correction[2], countryCode)
     THEN <<Line("country", countryCode, correction[2], 0)>> ELSE << >>)
    \o
    (IF FieldDiffers(correction[3], subdivision)
     THEN <<Line("region", subdivision, correction[3], 0)>> ELSE << >>)
    \o
    (IF FieldDiffers(correction[4], cityName)
     THEN <<Line("city", cityName, correction[4], 0)>> ELSE << >>)
    \o
    (IF PostalDiffers(correction[5], postalCode)
     THEN <<Line("postal code", postalCode, correction[5], 0)>> ELSE << >>)

\* a variant that prints the AS number even if there is none
ASLinesAlways(asNumber, asName, ispName) ==
    <<Line("AS Number", Empty, Empty, asNumber)>>
    \o
    (IF asName # Empty
     THEN <<Line("AS Name", Empty, asName, 0)>> ELSE << >>)
    \o
    (IF ispName # Empty
     THEN <<Line("ISP Name", Empty, ispName, 0)>> ELSE << >>)

\* lines 771-792: the lines added to the text of a row that differs
ASLines(asNumber, asName, ispName) ==
    (IF asNumber > 0
     THEN <<Line("AS Number", Empty, Empty, asNumber)>> ELSE << >>)
    \o
    (IF asName # Empty
     THEN <<Line("AS Name", Empty, asName, 0)>> ELSE << >>)
    \o
    (IF ispName # Empty
     THEN <<Line("ISP Name", Empty, ispName, 0)>> ELSE << >>)

\* a variant that puts the AS lines before the fragments
CompareASLinesFirst(correction, networkOrIP, city, subdivision, isp, asn) ==
    LET frags == Fragments(correction, city.country, subdivision,
                           city.city, city.postal)
        foundDiff == frags # << >>
        lines == <<Line("Found a potential improvement", Empty, networkOrIP, 0)>>
                 \o ASLines(isp.AutonomousSystemNumber,
                            isp.AutonomousSystemOrganization, isp.ISP)
                 \o frags
    IN  IF foundDiff THEN ValidResult(lines, asn) ELSE ValidResult(<< >>, asn)

\* lines 711-804, once every lookup has succeeded
Compare(correction, networkOrIP, city, subdivision, isp, asn) ==
    LET frags == Fragments(correction, city.country, subdivision,
                           city.city, city.postal)
        foundDiff == frags # << >>
        lines == <<Line("Found a potential improvement", Empty, networkOrIP, 0)>>
                 \o frags
                 \o ASLines(isp.AutonomousSystemNumber,
                            isp.AutonomousSystemOrganization, isp.ISP)
    IN  IF foundDiff THEN ValidResult(lines, asn) ELSE ValidResult(<< >>, asn)

\* a variant that counts the AS number of a row the region gate rejects
CheckRegionAfterCounting(correction, networkOrIP, city, ispReader, asn, o) ==
    LET subdivision == ComparableSubdivision(correction[3], city.country,
                                             MostSpecific(city.subdivisions))
        isp == IF ispReader # NilReader
               THEN Lookup(ispReader, PrefixAddr(networkOrIP), IspNotFound)
               ELSE IspNotFound
    IN  IF RegionCodeRejected(correction[3], o.LaxMode)
        THEN InvalidResult(InvalidRegionCode,
                 Reason("invalid ISO 3166-2 region code format in strict (default) mode",
                        Empty, "", Join(correction)),
                 CountASN(asn, isp.AutonomousSystemNumber))
        ELSE IF ispReader # NilReader /\ isp.err # ""
        THEN InvalidResult(UnableToFindISPRecord,
                 Reason("unable to find ISP record", networkOrIP, isp.err, Empty),
                 asn)
        ELSE Compare(correction, networkOrIP, city, subdivision, isp,
                     CountASN(asn, isp.AutonomousSystemNumber))

\* a variant that looks the ISP record up before the region gate
CheckISPBeforeRegion(correction, networkOrIP, city, ispReader, asn, o) ==
    LET subdivision == ComparableSubdivision(correction[3], city.country,
                                             MostSpecific(city.subdivisions))
        isp == IF ispReader # NilReader
               THEN Lookup(ispReader, PrefixAddr(networkOrIP), IspNotFound)
               ELSE IspNotFound
    IN  IF ispReader # NilReader /\ isp.err # ""
        THEN InvalidResult(UnableToFindISPRecord,
                 Reason("unable to find ISP record", networkOrIP, isp.err, Empty),
                 asn)
        ELSE IF RegionCodeRejected(correction[3], o.LaxMode)
        THEN InvalidResult(InvalidRegionCode,
                 Reason("invalid ISO 3166-2 region code format in strict (default) mode",
                        Empty, "", Join(correction)), asn)
        ELSE Compare(correction, networkOrIP, city, subdivision, isp,
                     CountASN(asn, isp.AutonomousSystemNumber))

\* lines 665-709, once the city record is decoded
CheckRegionAndISP(correction, networkOrIP, city, ispReader, asn, o) ==
    LET subdivision == ComparableSubdivision(correction[3], city.country,
                                             MostSpecific(city.subdivisions))
        isp == IF ispReader # NilReader
               THEN Lookup(ispReader, PrefixAddr(networkOrIP), IspNotFound)
               ELSE IspNotFound
    IN  IF RegionCodeRejected(correction[3], o.LaxMode)
        THEN InvalidResult(InvalidRegionCode,
                 Reason("invalid ISO 3166-2 region code format in strict (default) mode",
                        Empty, "", Join(correction)), asn)
        ELSE IF ispReader # NilReader /\ isp.err # ""
        THEN InvalidResult(UnableToFindISPRecord,
                 Reason("unable to find ISP record", networkOrIP, isp.err, Empty),
                 asn)
        ELSE Compare(correction, networkOrIP, city, subdivision, isp,
                     CountASN(asn, isp.AutonomousSystemNumber))

\* lines 597-663, with the normalized token and the answer of db.Lookup
ResolveNetworkAndCity(correction, networkOrIP, dbReader, ispReader, asn, o) ==
    IF ~ParsePrefixOK(networkOrIP)
    THEN InvalidResult(UnableToParseNetwork,
             Reason("unable to parse network", networkOrIP, "parse error",
                    Empty), asn)
    \* lines 609-663: each of the four DecodePath calls returns the same
    ELSE IF Lookup(dbReader, PrefixAddr(networkOrIP), CityNotFound).err # ""
    THEN InvalidResult(UnableToFindCityRecord,
             Reason("unable to find city record", networkOrIP,
                    Lookup(dbReader, PrefixAddr(networkOrIP), CityNotFound).err,
                    Empty), asn)
    ELSE CheckRegionAndISP(correction, networkOrIP,
             Lookup(dbReader, PrefixAddr(networkOrIP), CityNotFound),
             ispReader, asn, o)

\* lines 579-596, on the trimmed fields
VerifyTrimmed(correction, dbReader, ispReader, asn, o) ==
    IF correction[1] = Empty
    THEN InvalidResult(EmptyNetwork,
             Reason("network field is empty", Empty, "", Join(correction)),
             asn)
    ELSE ResolveNetworkAndCity(correction, NormalizeNetwork(correction[1]),
                               dbReader, ispReader, asn, o)

\* a variant that does not trim
TrimFieldsOmitted(fields) == fields

\* lines 575-577
TrimFields(fields) == [i \in 1..Len(fields) |-> TrimSpace(fields[i])]

verifyCorrection(row5, dbReader, ispReader, asn, o) ==
    VerifyTrimmed(TrimFields(row5), dbReader, ispReader, asn, o)

(***************************************************************************)
(* ProcessGeofeed (verify.go 423-553).                                     *)
(***************************************************************************)
geofeedFilename == "test_data/geofeed.csv"
mmdbFilename == "test_data/GeoIP2-City-Test.mmdb"
ispMmdbFilename == "test_data/GeoIP2-ISP-Test.mmdb"

(***************************************************************************)
(* The command: parseFlags (src/unnamed/part_001, 95-149).  An argument    *)
(* is a string; FlagSyntax is what flag.FlagSet.parseOne reads off it: is  *)
(* it a flag (it starts with '-' and has two characters or more), its name *)
(* (what follows the one or two '-' up to an '='), and the value after the *)
(* '=' if it has one.                                                      *)
(***************************************************************************)
DefaultDB == "/usr/local/share/GeoIP/GeoIP2-City.mmdb"

NonFlag == [isFlag |-> FALSE, name |-> "", hasValue |-> FALSE, value |-> ""]
FlagArg(name, hasValue, value) ==
    [isFlag |-> TRUE, name |-> name, hasValue |-> hasValue, value |-> value]

FlagSyntax ==
    ("-gf" :> FlagArg("gf", FALSE, ""))
    @@ ("-db" :> FlagArg("db", FALSE, ""))
    @@ ("-db=" :> FlagArg("db", TRUE, ""))
    @@ ("-isp" :> FlagArg("isp", FALSE, ""))
    @@ ("-lax" :> FlagArg("lax", FALSE, ""))
    @@ ("--lax=false" :> FlagArg("lax", TRUE, "false"))
    @@ ("-empty-ok" :> FlagArg("empty-ok", FALSE, ""))
    @@ ("-V" :> FlagArg("V", FALSE, ""))
    @@ ("-h" :> FlagArg("h", FALSE, ""))
    @@ ("" :> NonFlag)
    @@ (geofeedFilename :> NonFlag)
    @@ (mmdbFilename :> NonFlag)
    @@ (ispMmdbFilename :> NonFlag)

\* lines 100-120: the flags defined, and whether each is a boolean flag
IsBoolFlag ==
    ("gf" :> FALSE) @@ ("isp" :> FALSE) @@ ("db" :> FALSE)
    @@ ("V" :> TRUE) @@ ("lax" :> TRUE) @@ ("empty-ok" :> TRUE)

\* lines 100-120: the values of the flags before the arguments are read
FlagDefaults ==
    ("gf" :> "") @@ ("isp" :> "") @@ ("db" :> DefaultDB)
    @@ ("V" :> FALSE) @@ ("lax" :> FALSE) @@ ("empty-ok" :> FALSE)

\* strconv.ParseBool, on the values the arguments use
BoolValues == ("true" :> TRUE) @@ ("false" :> FALSE)

ErrHelp == "flag: help requested"

Parsed(values, e) == [values |-> values, err |-> e]

\* flag.FlagSet.Parse (line 122): the values of the flags after the
\* arguments rest have been read, or the error that stopped the reading
RECURSIVE Parse(_, _)
Parse(rest, values) ==
    IF rest = << >> THEN Parsed(values, "")
    ELSE IF ~FlagSyntax[Head(rest)].isFlag THEN Parsed(values, "")
    ELSE IF FlagSyntax[Head(rest)].name \notin DOMAIN IsBoolFlag
    THEN IF FlagSyntax[Head(rest)].name \in {"help", "h"}
         THEN Parsed(values, ErrHelp)
         ELSE Parsed(values, "flag provided but not defined")
    ELSE IF IsBoolFlag[FlagSyntax[Head(rest)].name]
    THEN IF ~FlagSyntax[Head(rest)].hasValue
         THEN Parse(Tail(rest),
                    [values EXCEPT ![FlagSyntax[Head(rest)].name] = TRUE])
         ELSE IF FlagSyntax[Head(rest)].value \in DOMAIN BoolValues
         THEN Parse(Tail(rest),
                    [values EXCEPT ![FlagSyntax[Head(rest)].name] =
                        BoolValues[FlagSyntax[Head(rest)].value]])
         ELSE Parsed(values, "invalid boolean value")
    ELSE IF FlagSyntax[Head(rest)].hasValue
    THEN Parse(Tail(rest),
               [values EXCEPT ![FlagSyntax[Head(rest)].name] =
                   FlagSyntax[Head(rest)].value])
    ELSE IF Len(rest) >= 2
    THEN Parse(SubSeq(rest, 3, Len(rest)),
               [values EXCEPT ![FlagSyntax[Head(rest)].name] = rest[2]])
    ELSE Parsed(values, "flag needs an argument")

\* the config struct (lines 28-34)
Config(values) ==
    [gf |-> values["gf"], db |-> values["db"], isp |-> values["isp"],
     laxMode |-> values["lax"], emptyOK |-> values["empty-ok"]]

\* what parseFlags returns: c (<< >> for nil, else <<config>>), what it
\* wrote to output, and err; exited when it ended the process itself
Returned(config, output, e) ==
    [c |-> config, output |-> output, err |-> e, exited |-> FALSE]
Exited == [c |-> << >>, output |-> "", err |-> "", exited |-> TRUE]

\* a variant that looks for -gf before it looks for both
parseFlagsGfFirst(arguments) ==
    LET p == Parse(arguments, FlagDefaults)
    IN  IF p.err # "" THEN Returned(<< >>, "usage", p.err)
        ELSE IF p.values["V"] THEN Exited
        ELSE IF p.values["gf"] = ""
        THEN Returned(<< >>, "defaults", "-gf is required")
        ELSE IF p.values["gf"] = "" /\ p.values["db"] = ""
        THEN Returned(<< >>, "defaults",
                      "-gf is required and -db can not be an empty string")
        ELSE IF p.values["db"] = ""
        THEN Returned(<< >>, "defaults", "-db is required")
        ELSE Returned(<<Config(p.values)>>, "", "")

\* parseFlags (lines 95-149)
parseFlags(arguments) ==
    LET p == Parse(arguments, FlagDefaults)
    IN  IF p.err # "" THEN Returned(<< >>, "usage", p.err)
        ELSE IF p.values["V"] THEN Exited
        ELSE IF p.values["gf"] = "" /\ p.values["db"] = ""
        THEN Returned(<< >>, "defaults",
                      "-gf is required and -db can not be an empty string")
        ELSE IF p.values["gf"] = ""
        THEN Returned(<< >>, "defaults", "-gf is required")
        ELSE IF p.values["db"] = ""
        THEN Returned(<< >>, "defaults", "-db is required")
        ELSE Returned(<<Config(p.values)>>, "", "")


\* the error a call returned and fmt.Errorf wraps with %w: its text and
\* the file path its text names ("" if none)
Cause(text, path) == [text |-> text, path |-> path]
NoCause == Cause("", "")

\* *fs.PathError, of os.ReadFile and of the os.Open in maxminddb.Open;
\* its text is op + " " + path + ": " + the error of the system call
OsPathError(op, path) == Cause(op, path)

\* maxminddb.InvalidDatabaseError, of a file that is no MMDB
InvalidDatabaseError == Cause("error opening database: invalid MaxMind DB file", "")

\* *csv.ParseError
CsvParseError == Cause("parse error", "")

\* an error value: the text of its format, the file path the format is
\* given ("" if none) and the error it wraps
Error(msg, path) == [msg |-> msg, path |-> path, cause |-> NoCause]
NoError == Error("", "")

\* fmt.Errorf with or without the file path (lines 434-437, 449-452, ...)
PathError(hiddenMsg, shownMsg, path, cause, o) ==
    IF o.HideFilePathsInErrorMessages
    THEN [msg |-> hiddenMsg, path |-> "", cause |-> cause]
    ELSE [msg |-> shownMsg, path |-> path, cause |-> cause]

\* NewCheckResult (lines 398-405)
NewCheckResult ==
    [Total |-> 0, Differences |-> 0, Invalid |-> 0, SampleInvalidRows |-> << >>]

\* lines 497-503
FewerFieldsMessage(line, expected, got, rowText) ==
    [line |-> line, text |-> "expected fields but got", expected |-> expected,
     got |-> got, network |-> Empty, err |-> "", row |-> rowText]

\* lines 518-522
InvalidRowMessage(line, reason) ==
    [line |-> line, text |-> reason.text, expected |-> 0, got |-> 0,
     network |-> reason.network, err |-> reason.err, row |-> reason.row]

\* a variant that keeps the last message of a kind
KeepLastSample(samples, kind, message) ==
    (kind :> message) @@ samples

\* lines 496-504, 517-523: only the first message of a kind is kept
KeepFirstSample(samples, kind, message) ==
    IF kind \in DOMAIN samples THEN samples ELSE (kind :> message) @@ samples

\* a variant that counts an invalid row without keeping a sample
CountInvalidUnsampled(check, kind, message) ==
    [check EXCEPT !.Invalid = @ + 1]

\* lines 495-507, 516-526
CountInvalid(check, kind, message) ==
    [check EXCEPT !.SampleInvalidRows = KeepFirstSample(@, kind, message),
                  !.Invalid = @ + 1]

\* the row the model starts with, before any Read
NoRow == << >>

NotVerified ==
    [called |-> FALSE, diffLine |-> << >>, valid |-> FALSE,
     invalidityType |-> FewerFieldsThanExpected, invalidityReason |-> NoReason]

Verified(r) ==
    [called |-> TRUE, diffLine |-> r.diffLine, valid |-> r.valid,
     invalidityType |-> r.invalidityType,
     invalidityReason |-> r.invalidityReason]

(***************************************************************************)
(* The reference databases of the file-level specification.                *)
(***************************************************************************)
TestCityDB ==
    (AddrV6Test :> CityRecord(sUS, <<sNJ>>, sParsippany, s34021))
    @@ (AddrV4Test :> CityRecord(sGB, <<sENG, sWBK>>, sBoxford, sOX1))
    @@ (AddrV4NoIsp :> CityRecord(sFR, << >>, sParis, s75001))
    @@ (AddrV4NoCity :> CityError)

TestIspDB ==
    (AddrV6Test :> IspRecord(64512, sNet, sIsp))
    @@ (AddrV4Test :> IspRecord(64513, Empty, sIsp))
    @@ (AddrV4NoIsp :> IspError)

Options == [LaxMode : BOOLEAN, HideFilePathsInErrorMessages : BOOLEAN,
            EmptyOK : BOOLEAN]

\* the bytes of the geofeed files of the file-level specification: a file
\* that starts with '2', with and without a byte-order mark, and files
\* with a byte no encoding has
FeedData == {<<50>>, BOM \o <<50>>, <<255>>, BOM \o <<255>>}

\* the command has not been started: ProcessGeofeed is called as a library
NoConfig == << >>
\* the process has not ended
Running == -1

\* the arguments of ProcessGeofeed: those run passes (part_001, 50-55), or
\* those of the tests when it is called as a library
GeofeedPath == IF conf = NoConfig THEN geofeedFilename ELSE conf[1].gf
MmdbPath == IF conf = NoConfig THEN mmdbFilename ELSE conf[1].db

Init ==
    /\ opts \in Options
    /\ ispFilename \in {"", ispMmdbFilename}
    /\ db = NilReader
    /\ ispdb = NilReader
    /\ pc = "start"
    /\ c = NewCheckResult
    /\ diffLines = << >>
    /\ asnCounts = << >>
    /\ err = NoError
    /\ skipped = 0
    /\ delivered = 0
    /\ row = NoRow
    /\ result = NotVerified
    /\ geofeedData \in FeedData
    /\ args = << >>
    /\ conf = NoConfig
    /\ stdout = << >>
    /\ log = << >>
    /\ exit = Running

\* lines 429-475: read the file, check it, open the databases
Open ==
    /\ pc = "start"
    /\ \/ \* 432-438: os.ReadFile fails
          \E cause \in {OsPathError("open", GeofeedPath),
                        OsPathError("read", GeofeedPath)} :
             /\ err' = PathError("unable to open file", "unable to open",
                                 GeofeedPath, cause, opts)
             /\ pc' = "fatal"
             /\ geofeedData' = << >>
             /\ UNCHANGED <<db, ispdb>>
       \/ \* 440-445: the content is not UTF-8
          /\ ~Utf8Valid(TrimPrefix(geofeedData, BOM))
          /\ err' = Error(ErrNotUTF8, "")
          /\ pc' = "fatal"
          /\ geofeedData' = TrimPrefix(geofeedData, BOM)
          /\ UNCHANGED <<db, ispdb>>
       \/ \* 447-453: maxminddb.Open(mmdbFilename) fails
          /\ Utf8Valid(TrimPrefix(geofeedData, BOM))
          /\ \E cause \in {OsPathError("open", MmdbPath),
                           InvalidDatabaseError} :
                err' = PathError("unable to open MMDB", "unable to open MMDB",
                                 MmdbPath, cause, opts)
          /\ pc' = "fatal"
          /\ geofeedData' = TrimPrefix(geofeedData, BOM)
          /\ UNCHANGED <<db, ispdb>>
       \/ \* 456-464: maxminddb.Open(ispFilename) fails
          /\ Utf8Valid(TrimPrefix(geofeedData, BOM))
          /\ ispFilename # ""
          /\ \E cause \in {OsPathError("open", ispFilename),
                           InvalidDatabaseError} :
                err' = PathError("unable to open ISP MMDB",
                                 "unable to open ISP MMDB", ispFilename,
                                 cause, opts)
          /\ pc' = "fatal"
          /\ geofeedData' = TrimPrefix(geofeedData, BOM)
          /\ db' = <<TestCityDB>>
          /\ UNCHANGED ispdb
       \/ \* 467-475: the loop is entered
          /\ Utf8Valid(TrimPrefix(geofeedData, BOM))
          /\ err' = NoError
          /\ pc' = "loop"
          /\ geofeedData' = TrimPrefix(geofeedData, BOM)
          /\ db' = <<TestCityDB>>
          /\ ispdb' = IF ispFilename # "" THEN <<TestIspDB>> ELSE NilReader
    /\ UNCHANGED <<opts, ispFilename, c, diffLines, asnCounts, skipped,
                   delivered, row, result, cli>>

\* line 493
CountRow(check) == [check EXCEPT !.Total = @ + 1]

\* a variant that samples a short row without counting it as invalid
RejectShortRowUncounted(counted, r) ==
    [counted EXCEPT !.SampleInvalidRows =
        KeepFirstSample(@, FewerFieldsThanExpected,
            FewerFieldsMessage(counted.Total, expectedFieldsPerRecord,
                               Len(r), Join(r)))]

\* lines 495-507: a row of fewer than five fields
RejectShortRow(counted, r) ==
    CountInvalid(counted, FewerFieldsThanExpected,
                 FewerFieldsMessage(counted.Total, expectedFieldsPerRecord,
                                    Len(r), Join(r)))

\* a variant that leaves an invalid row out of Total
RejectInvalidRowUncounted(counted, v) ==
    [CountInvalid(counted, v.invalidityType,
                  InvalidRowMessage(counted.Total, v.invalidityReason))
        EXCEPT !.Total = @ - 1]

\* a variant that counts an invalid row as a difference too
RejectInvalidRowAsDifference(counted, v) ==
    [CountInvalid(counted, v.invalidityType,
                  InvalidRowMessage(counted.Total, v.invalidityReason))
        EXCEPT !.Differences = @ + 1]

\* lines 516-526: a row verifyCorrection found invalid
RejectInvalidRow(counted, v) ==
    CountInvalid(counted, v.invalidityType,
                 InvalidRowMessage(counted.Total, v.invalidityReason))

\* a variant that puts the diff text of a row before those of earlier rows
ApplyResultPrepend(counted, v) ==
    /\ result' = Verified(v)
    /\ asnCounts' = v.asnCounts
    /\ IF ~v.valid
       THEN /\ c' = RejectInvalidRow(counted, v)
            /\ UNCHANGED diffLines
       ELSE IF v.diffLine # << >>
       THEN /\ diffLines' = <<v.diffLine>> \o diffLines
            /\ c' = [counted EXCEPT !.Differences = @ + 1]
       ELSE /\ c' = counted
            /\ UNCHANGED diffLines

\* lines 516-531: fold what verifyCorrection returned into the results
ApplyResult(counted, v) ==
    /\ result' = Verified(v)
    /\ asnCounts' = v.asnCounts
    /\ IF ~v.valid
       THEN /\ c' = RejectInvalidRow(counted, v)
            /\ UNCHANGED diffLines
       ELSE IF v.diffLine # << >>
       THEN /\ diffLines' = Append(diffLines, v.diffLine)
            /\ c' = [counted EXCEPT !.Differences = @ + 1]
       ELSE /\ c' = counted
            /\ UNCHANGED diffLines

\* a variant that hands verifyCorrection every field of the row
ProcessRowAllFields(r) ==
    IF Len(r) < expectedFieldsPerRecord
    THEN /\ c' = RejectShortRow(CountRow(c), r)
         /\ result' = NotVerified
         /\ UNCHANGED <<diffLines, asnCounts>>
    ELSE \E v \in {verifyCorrection(r, db, ispdb, asnCounts, opts)} :
            ApplyResult(CountRow(c), v)

\* lines 493-531: the body of the loop for the row r that Read delivered
ProcessRow(r) ==
    IF Len(r) < expectedFieldsPerRecord
    THEN /\ c' = RejectShortRow(CountRow(c), r)
         /\ result' = NotVerified
         /\ UNCHANGED <<diffLines, asnCounts>>
    ELSE \E v \in {verifyCorrection(SubSeq(r, 1, expectedFieldsPerRecord),
                                    db, ispdb, asnCounts, opts)} :
            ApplyResult(CountRow(c), v)

\* lines 477-532: one iteration; Read passes over n comment or blank lines
\* and delivers the record r
ReadRow(r) ==
    /\ pc = "loop"
    /\ \E n \in 0..(MaxSkipped - skipped) : skipped' = skipped + n
    /\ delivered' = delivered + 1
    /\ row' = r
    /\ ProcessRow(r)
    /\ UNCHANGED <<opts, ispFilename, db, ispdb, pc, err, geofeedData, cli>>

\* lines 482-491: Read reports an error that is not io.EOF
ReadError ==
    /\ pc = "loop"
    /\ err' = PathError("unable to read next row", "unable to read next row in",
                        GeofeedPath, CsvParseError, opts)
    /\ pc' = "fatal"
    /\ UNCHANGED <<opts, ispFilename, db, ispdb, c, diffLines, asnCounts,
                   skipped, delivered, row, result, geofeedData, cli>>

\* a variant that reports success although rows were invalid
FinalErrorIgnoresInvalid(check, o) ==
    IF check.Total = 0 /\ ~o.EmptyOK
    THEN Error(ErrEmptyGeofeed, "")
    ELSE NoError

\* a variant that does not consult EmptyOK
FinalErrorIgnoresEmptyOK(check, o) ==
    IF check.Total = 0
    THEN Error(ErrEmptyGeofeed, "")
    ELSE IF check.Invalid > 0 \/ Cardinality(DOMAIN check.SampleInvalidRows) > 0
    THEN Error(ErrInvalidGeofeed, "")
    ELSE NoError

\* lines 544-552, after Read reported io.EOF (533-542 cannot be reached)
FinalError(check, o) ==
    IF check.Total = 0 /\ ~o.EmptyOK
    THEN Error(ErrEmptyGeofeed, "")
    ELSE IF check.Invalid > 0 \/ Cardinality(DOMAIN check.SampleInvalidRows) > 0
    THEN Error(ErrInvalidGeofeed, "")
    ELSE NoError

\* lines 479-481, 533-552: Read reports io.EOF
Finish ==
    /\ pc = "loop"
    /\ \E n \in 0..(MaxSkipped - skipped) : skipped' = skipped + n
    /\ err' = FinalError(c, opts)
    /\ pc' = "done"
    /\ UNCHANGED <<opts, ispFilename, db, ispdb, c, diffLines, asnCounts,
                   delivered, row, result, geofeedData, cli>>

(***************************************************************************)
(* The rows of the file-level specification: the rows of the test data     *)
(* (test_data/geofeed-*.csv as the tests describe them) and one row for    *)
(* each way a row can fail or differ.                                      *)
(***************************************************************************)
NetV6Test == AddrV6Test \o sSlash29

RowMatch == <<NetV6Test, sUS, sUSNJ, sParsippany, Empty>>
RowMatchLower == <<NetV6Test, sUs, sUsNj, sParsippanyLower, s34021>>
RowPostal == <<NetV6Test, sUS, sUSNJ, sParsippany, s1060>>
RowBareRegion == <<NetV6Test, sUS, sNJ, sParsippany, Empty>>
RowMissingField == <<NetV6Test, sUS, sUSNJ, sParsippany>>
RowEmptyNetwork == <<Empty, Empty, Empty, Empty, Empty>>
RowBadNetwork == <<sBadNet, sUS, sUSNJ, sParsippany, Empty>>
RowNoCity == <<AddrV4NoCity, sUS, sUSNJ, sParsippany, Empty>>
RowNoIsp == <<AddrV4NoIsp, sFR, Empty, sParis, s75001>>
RowCityDiffers == <<AddrV4Test, sGB, sGBWBK, sParis, Empty>>
RowExtraField == <<NetV6Test, sUS, sUSNJ, sParsippany, s1060, sExtra>>

FeedRows ==
    {RowMatch, RowPostal, RowBareRegion, RowMissingField, RowEmptyNetwork,
     RowBadNetwork, RowNoCity, RowNoIsp, RowCityDiffers, RowExtraField,
     RowMatchLower}

\* the loop, for a file of at most MaxRows records
Read ==
    /\ delivered < MaxRows
    /\ \E r \in FeedRows : ReadRow(r)

Next == Open \/ Read \/ ReadError \/ Finish

Spec == Init /\ [][Next]_vars

(***************************************************************************)
(* The command: main and run (src/unnamed/part_001, 36-93).  A line of     *)
(* output is a record: what kind of line it is and the values its format   *)
(* is given.                                                               *)
(***************************************************************************)
OutputLine(kind, body, n, count) ==
    [kind |-> kind, body |-> body, n |-> n, count |-> count]

\* Options{} before run has parsed the flags
NoOptions ==
    [LaxMode |-> FALSE, HideFilePathsInErrorMessages |-> FALSE,
     EmptyOK |-> FALSE]

\* lines 43-55 (and 127-131, 38-40): parseFlags, and what run and main do
\* with what it returns
ParseFlags ==
    /\ pc = "main"
    /\ \E r \in {parseFlags(args)} :
        IF r.exited
        THEN /\ log' = <<OutputLine("version", << >>, 0, 0)>>
             /\ exit' = 0
             /\ pc' = "exit"
             /\ UNCHANGED <<conf, stdout, opts, ispFilename>>
        ELSE IF r.err # ""
        THEN /\ stdout' = <<OutputLine("output", <<r.output>>, 0, 0)>>
             /\ log' = <<OutputLine("fatal", <<r.err>>, 0, 0)>>
             /\ exit' = 1
             /\ pc' = "exit"
             /\ UNCHANGED <<conf, opts, ispFilename>>
        ELSE /\ conf' = r.c
             /\ opts' = [LaxMode |-> r.c[1].laxMode,
                         HideFilePathsInErrorMessages |-> FALSE,
                         EmptyOK |-> r.c[1].emptyOK]
             /\ ispFilename' = r.c[1].isp
             /\ pc' = "start"
             /\ UNCHANGED <<stdout, log, exit>>
    /\ UNCHANGED <<db, ispdb, c, diffLines, asnCounts, err, skipped,
                   delivered, row, result, geofeedData, args>>

\* the orders in which the elements of S can be listed
Orders(S) ==
    {p \in [1..Cardinality(S) -> S] :
        \A i, j \in 1..Cardinality(S) : p[i] = p[j] => i = j}

\* a variant with the comparison turned round
LessByCountAscending(counts, a, b) == counts[a] < counts[b]

\* line 85: the less function given to sort.Slice
LessByCount(counts, a, b) == counts[a] > counts[b]

\* lines 78-87: the keys of the map, in any order, sorted by a sort that
\* is not stable: any order in which no key is less than one before it
SortSlice(counts) ==
    {p \in Orders(DOMAIN counts) :
        \A i, j \in DOMAIN p : i < j => ~LessByCount(counts, p[j], p[i])}

\* lines 58-65: the lines logged for ErrInvalidGeofeed, the samples in the
\* order order
InvalidLines(check, order) ==
    <<OutputLine("invalid rows", << >>, check.Invalid, check.Total)>>
    \o [i \in DOMAIN order |->
           OutputLine("sample", <<check.SampleInvalidRows[order[i]]>>,
                      order[i], 0)]

\* lines 70-90: the lines printed after ProcessGeofeed succeeded, the AS
\* numbers in the order order
SuccessLines(check, lines, counts, order) ==
    <<OutputLine("summary", lines, check.Total, check.Differences)>>
    \o [i \in DOMAIN order |->
           OutputLine("ASN", << >>, order[i], counts[order[i]])]

\* a variant that takes every error for the one asked about
ErrorsIsNonNil(e, target) == e # NoError

\* line 57, errors.Is: the error or the one it wraps is the target
ErrorsIs(e, target) == e.msg = target \/ e.cause.text = target

\* lines 56-92 (and 38-40): what run and main do with what ProcessGeofeed
\* returned
Report ==
    /\ pc \in {"done", "fatal"}
    /\ conf # NoConfig
    /\ IF err # NoError
       THEN /\ \E order \in Orders(DOMAIN c.SampleInvalidRows) :
                 log' = (IF ErrorsIs(err, ErrInvalidGeofeed)
                         THEN InvalidLines(c, order) ELSE << >>)
                        \o <<OutputLine("fatal", <<conf[1].gf, err>>, 0, 0)>>
            /\ exit' = 1
            /\ UNCHANGED stdout
       ELSE /\ \E order \in SortSlice(asnCounts) :
                 stdout' = SuccessLines(c, diffLines, asnCounts, order)
            /\ exit' = 0
            /\ UNCHANGED log
    /\ pc' = "exit"
    /\ UNCHANGED <<opts, ispFilename, db, ispdb, c, diffLines, asnCounts, err,
                   skipped, delivered, row, result, geofeedData, args, conf>>

(***************************************************************************)
(* The command-level specification: the command run on a few argument      *)
(* lists, against files of at most MaxRows of a few rows.                  *)
(***************************************************************************)
RunArgs ==
    {<<"-gf", geofeedFilename, "-db", mmdbFilename>>,
     <<"-gf", geofeedFilename, "-db", mmdbFilename, "-isp", ispMmdbFilename>>,
     <<"-lax", "-isp", ispMmdbFilename, "-db", mmdbFilename,
       "-gf", geofeedFilename>>,
     <<"-gf", geofeedFilename, "-empty-ok">>,
     <<"-db", "">>,
     <<"-V">>}

RunRows == {RowMatch, RowPostal, RowCityDiffers, RowMissingField,
            RowBadNetwork}

InitRun ==
    /\ opts = NoOptions
    /\ ispFilename = ""
    /\ db = NilReader
    /\ ispdb = NilReader
    /\ pc = "main"
    /\ c = NewCheckResult
    /\ diffLines = << >>
    /\ asnCounts = << >>
    /\ err = NoError
    /\ skipped = 0
    /\ delivered = 0
    /\ row = NoRow
    /\ result = NotVerified
    /\ geofeedData \in FeedData
    /\ args \in RunArgs
    /\ conf = NoConfig
    /\ stdout = << >>
    /\ log = << >>
    /\ exit = Running

RunRead ==
    /\ delivered < MaxRows
    /\ \E r \in RunRows : ReadRow(r)

NextRun == ParseFlags \/ Open \/ RunRead \/ ReadError \/ Finish \/ Report

SpecRun == InitRun /\ [][NextRun]_vars

(***************************************************************************)
(* The flag-parsing specification: parseFlags on every list of at most     *)
(* MaxArgs arguments.                                                      *)
(***************************************************************************)
WideTokens ==
    {"-gf", "-db", "-db=", "-isp", "-lax", "--lax=false", "-empty-ok", "-V",
     "-h", "", geofeedFilename, mmdbFilename}

WideArgs == UNION {[1..n -> WideTokens] : n \in 0..MaxArgs}

InitFlags ==
    /\ opts = NoOptions
    /\ ispFilename = ""
    /\ db = NilReader
    /\ ispdb = NilReader
    /\ pc = "main"
    /\ c = NewCheckResult
    /\ diffLines = << >>
    /\ asnCounts = << >>
    /\ err = NoError
    /\ skipped = 0
    /\ delivered = 0
    /\ row = NoRow
    /\ result = NotVerified
    /\ geofeedData = <<50>>
    /\ args \in WideArgs
    /\ conf = NoConfig
    /\ stdout = << >>
    /\ log = << >>
    /\ exit = Running

NextFlags == ParseFlags

SpecFlags == InitFlags /\ [][NextFlags]_vars

(***************************************************************************)
(* The row-level specification: one iteration of the loop on a row drawn   *)
(* from the product of the field values, against databases that answer     *)
(* every address with the same outcome.                                    *)
(***************************************************************************)
WideNetworks ==
    {Empty, sSpace, AddrV4Test, AddrV4Test \o sSlash24, AddrV4Test \o sSlash33,
     AddrV6Doc, NetV6Test, sBadNet}
WideCountries == {sUS, sUs, Empty}
WideRegions == {Empty, sNJ, sNj, sUSNJ, sUsNj, sWBK}
WideCities == {sParsippany, sParsippanyLower, sParis}
WidePostals == {Empty, sSpace, s34021, s1060, sOx1}

FullRows ==
    {<<n, co, r, ci, p>> : n \in WideNetworks, co \in WideCountries,
                           r \in WideRegions, ci \in WideCities,
                           p \in WidePostals}

WideRows ==
    FullRows
    \cup {SubSeq(r, 1, k) : r \in FullRows, k \in 1..4}
    \cup {r \o <<sExtra>> : r \in {RowMatch, RowPostal, RowBareRegion,
                                    RowEmptyNetwork}}

WideCityOutcomes ==
    {CityError, CityNotFound,
     CityRecord(sUS, <<sNJ>>, sParsippany, s34021),
     CityRecord(sUS, <<sNJ>>, sParsippany, s1060),
     CityRecord(sUS, << >>, sParsippany, Empty),
     CityRecord(sGB, <<sENG, sWBK>>, sBoxford, sOX1)}

WideIspOutcomes ==
    {IspError, IspNotFound, IspRecord(0, Empty, sIsp),
     IspRecord(64512, sNet, sIsp)}

Answering(outcome) == <<[a \in V4Addrs \cup V6Addrs |-> outcome]>>

InitRow ==
    /\ opts \in [LaxMode : BOOLEAN, HideFilePathsInErrorMessages : {FALSE},
                 EmptyOK : {FALSE}]
    /\ \E o \in WideCityOutcomes : db = Answering(o)
    /\ \/ ispFilename = "" /\ ispdb = NilReader
       \/ ispFilename = ispMmdbFilename
          /\ \E o \in WideIspOutcomes : ispdb = Answering(o)
    /\ pc = "loop"
    /\ c = NewCheckResult
    /\ diffLines = << >>
    /\ asnCounts = << >>
    /\ err = NoError
    /\ skipped = 0
    /\ delivered = 0
    /\ row \in WideRows
    /\ result = NotVerified
    /\ geofeedData = <<50>>
    /\ args = << >>
    /\ conf = NoConfig
    /\ stdout = << >>
    /\ log = << >>
    /\ exit = Running

\* one iteration of the loop on the row drawn
VerifyRow ==
    /\ pc = "loop"
    /\ delivered = 0
    /\ delivered' = 1
    /\ ProcessRow(row)
    /\ UNCHANGED <<opts, ispFilename, db, ispdb, pc, err, skipped, row,
                   geofeedData, cli>>

NextRow == VerifyRow

SpecRow == InitRow /\ [][NextRow]_vars

(***************************************************************************)
(* The file-opening specification: the part of ProcessGeofeed before the   *)
(* loop, on every file of at most MaxData bytes drawn from the bytes of    *)
(* the byte-order mark, an ASCII character, the first byte of a two-byte   *)
(* encoding and a byte no encoding has.                                    *)
(***************************************************************************)
WideBytes == {239, 187, 191, 50, 195, 255}

WideData == UNION {[1..n -> WideBytes] : n \in 0..MaxData}

InitOpen ==
    /\ opts \in Options
    /\ ispFilename \in {"", ispMmdbFilename}
    /\ db = NilReader
    /\ ispdb = NilReader
    /\ pc = "start"
    /\ c = NewCheckResult
    /\ diffLines = << >>
    /\ asnCounts = << >>
    /\ err = NoError
    /\ skipped = 0
    /\ delivered = 0
    /\ row = NoRow
    /\ result = NotVerified
    /\ geofeedData \in WideData
    /\ args = << >>
    /\ conf = NoConfig
    /\ stdout = << >>
    /\ log = << >>
    /\ exit = Running

NextOpen == Open

SpecOpen == InitOpen /\ [][NextOpen]_vars

(***************************************************************************)
(* Properties.                                                             *)
(***************************************************************************)
Samples == c.SampleInvalidRows

\* C1: an invalid row never halts the file.  Whenever Read delivers a row,
\* valid or not, the loop goes on, Total is the number of rows delivered so
\* far, an invalid row is counted, and a sample stored for it carries the
\* ordinal of the row among the delivered rows (the comment and blank lines
\* passed over are not counted); at the end Total is the number delivered.
C1_InvalidRowNeverHalts ==
    [][/\ delivered' = delivered + 1 =>
            /\ pc' = "loop"
            /\ c'.Total = delivered'
            /\ \A k \in DOMAIN c'.SampleInvalidRows \ DOMAIN Samples :
                   c'.SampleInvalidRows[k].line = delivered'
            /\ ~result'.valid =>
                   /\ c'.Invalid = c.Invalid + 1
                   /\ result'.invalidityType \in DOMAIN c'.SampleInvalidRows
       /\ pc' = "done" => c'.Total = delivered'
      ]_vars

\* C1 witness: a file of three rows and a comment line has been read to its
\* end; its second row was invalid and sampled as line 2, its third valid.
C1_Witness ==
    /\ pc = "done"
    /\ skipped = 1
    /\ c.Total = 3
    /\ c.Invalid = 1
    /\ \E k \in DOMAIN Samples : Samples[k].line = 2
    /\ result.valid

\* C2: at the end of a file read without a fatal error, the error is
\* ErrInvalidGeofeed exactly when some row was invalid, and nil when no row
\* was invalid and the file is not empty; the results returned with it are
\* those of all the rows (Total rows, one diff line per difference).
C2_InvalidGeofeedIffInvalidRow ==
    /\ err.msg = ErrInvalidGeofeed <=> (pc = "done" /\ c.Invalid > 0)
    /\ pc = "done" =>
        /\ c.Invalid = 0 /\ c.Total > 0 => err = NoError
        /\ c.Total = delivered
        /\ Len(diffLines) = c.Differences
        /\ DOMAIN Samples # {} <=> c.Invalid > 0

\* C2 witness: ErrInvalidGeofeed is returned together with a difference,
\* its diff line and a histogram entry.
C2_Witness ==
    /\ pc = "done"
    /\ err.msg = ErrInvalidGeofeed
    /\ c.Invalid > 0
    /\ c.Differences > 0
    /\ Len(diffLines) > 0
    /\ DOMAIN asnCounts # {}

\* C3: a geofeed that delivers no row fails with ErrEmptyGeofeed unless
\* EmptyOK is set, in which case it succeeds; either way the results are
\* those of NewCheckResult.  ErrEmptyGeofeed is returned in no other case.
C3_EmptyGeofeed ==
    /\ pc = "done" /\ delivered = 0 =>
        /\ c = NewCheckResult
        /\ diffLines = << >>
        /\ err = IF opts.EmptyOK THEN NoError ELSE Error(ErrEmptyGeofeed, "")
    /\ err.msg = ErrEmptyGeofeed =>
        pc = "done" /\ delivered = 0 /\ ~opts.EmptyOK

\* C3 witness: a file of one comment line, with EmptyOK, has succeeded.
C3_Witness ==
    /\ pc = "done"
    /\ delivered = 0
    /\ skipped = 1
    /\ opts.EmptyOK
    /\ err = NoError

(***************************************************************************)
(* Properties of one row, stated on the row-level specification: row is    *)
(* the row processed, RefCity the record every address is answered with.   *)
(***************************************************************************)
Processed == delivered = 1
RefCity == db[1][AddrV4Test]
RefLast ==
    IF RefCity.subdivisions = << >> THEN Empty
    ELSE RefCity.subdivisions[Len(RefCity.subdivisions)]

Blank(s) == \A i \in 1..Len(s) : s[i] \in {" ", "\t"}
HasChar(s, ch) == \E i \in 1..Len(s) : s[i] = ch
HasFragment(label) ==
    \E i \in 1..Len(result.diffLine) : result.diffLine[i].label = label
FragmentOf(label) ==
    result.diffLine[CHOOSE i \in 1..Len(result.diffLine) :
                        result.diffLine[i].label = label]

\* C4: a row of fewer than five fields, whatever its fields, is counted as
\* invalid under FewerFieldsThanExpected without verifyCorrection being
\* called, and leaves Differences, the diff lines and the histogram alone.
C4_FewerFields ==
    [][delivered' = delivered + 1 /\ Len(row') < 5 =>
        /\ ~result'.called
        /\ c'.Invalid = c.Invalid + 1
        /\ DOMAIN c'.SampleInvalidRows
               = DOMAIN Samples \cup {FewerFieldsThanExpected}
        /\ c'.Differences = c.Differences
        /\ diffLines' = diffLines
        /\ asnCounts' = asnCounts
      ]_vars

\* C4 witness: a four-field row with a good network was rejected although
\* an ISP database that knows its AS number is open.
C4_Witness ==
    /\ Processed
    /\ Len(row) = 4
    /\ row[1] = NetV6Test
    /\ ispdb = Answering(IspRecord(64512, sNet, sIsp))
    /\ c.Invalid = 1
    /\ asnCounts = << >>

\* C5: a row of five or more fields whose first field is empty after
\* trimming is invalid under EmptyNetwork, whatever the other fields, the
\* mode and the reference data.
C5_EmptyNetwork ==
    Processed /\ Len(row) >= 5 /\ Blank(row[1]) =>
        /\ result.called
        /\ ~result.valid
        /\ result.invalidityType = EmptyNetwork
        /\ DOMAIN Samples = {EmptyNetwork}
        /\ c.Invalid = 1

\* C5 witness: a row with a blank network and a bare region code, in strict
\* mode, was classified EmptyNetwork.
C5_Witness ==
    /\ Processed
    /\ Len(row) = 5
    /\ row[1] = sSpace
    /\ row[3] = sNJ
    /\ ~opts.LaxMode
    /\ result.invalidityType = EmptyNetwork

Token == TrimSpace(row[1])

\* what C6 says the normalized token is
Normalized(t) ==
    IF HasChar(t, "/") THEN t
    ELSE IF HasChar(t, ":") THEN t \o <<"/","6","4">>
    ELSE t \o <<"/","3","2">>

\* C6: a non-empty token without '/' gets "/64" if it has a ':' and "/32"
\* otherwise, one with '/' is left alone, so that normalizing twice is
\* normalizing once; the normalized token is the network every message and
\* diff header names; and a token that then fails to parse makes the row
\* UnableToParseNetwork.
C6_NetworkNormalization ==
    Processed /\ result.called /\ Token # Empty =>
        /\ NormalizeNetwork(Token) = Normalized(Token)
        /\ NormalizeNetwork(NormalizeNetwork(Token)) = NormalizeNetwork(Token)
        /\ result.invalidityType \in {UnableToParseNetwork,
               UnableToFindCityRecord, UnableToFindISPRecord} =>
               result.invalidityReason.network = Normalized(Token)
        /\ result.diffLine # << >> =>
               result.diffLine[1].suggested = Normalized(Token)
        /\ Token = <<"1","9","2",".","0",".","2",".","1","/","2","4">>
           /\ result.diffLine # << >> =>
               result.diffLine[1].suggested
                   = <<"1","9","2",".","0",".","2",".","1","/","2","4">>
        /\ Token = <<"1","9","2",".","0",".","2",".","1">>
           /\ result.diffLine # << >> =>
               result.diffLine[1].suggested
                   = <<"1","9","2",".","0",".","2",".","1","/","3","2">>
        /\ Token = <<"2","0","0","1",":","d","b","8",":",":","1">>
           /\ result.diffLine # << >> =>
               result.diffLine[1].suggested
                   = <<"2","0","0","1",":","d","b","8",":",":","1","/","6","4">>
        /\ ~ParsePrefixOK(Normalized(Token)) <=>
               result.invalidityType = UnableToParseNetwork

\* C6 witness: the bare IPv6 address 2001:db8::1 was reported as
\* 2001:db8::1/64 in the header of a diff.
C6_Witness ==
    /\ Processed
    /\ row[1] = AddrV6Doc
    /\ result.valid
    /\ result.diffLine # << >>
    /\ result.diffLine[1].suggested = AddrV6Doc \o sSlash64

Region == TrimSpace(row[3])
BareRegion == Region # Empty /\ ~HasChar(Region, "-")

\* C7 as claimed: in strict mode a row with a bare region code is always
\* invalid under InvalidRegionCode.
C7_AlwaysInvalidRegionCode ==
    Processed /\ Len(row) >= 5 /\ ~opts.LaxMode /\ BareRegion =>
        ~result.valid /\ result.invalidityType = InvalidRegionCode

\* C7, amended: in strict mode a row of five or more fields with a bare
\* region code is always invalid; it is InvalidRegionCode whenever its
\* network field is not empty and parses and the city lookup succeeds,
\* whatever the reference record and the ISP lookup say, and otherwise it
\* has the kind of the earlier check that failed.
C7_StrictBareRegion ==
    Processed /\ Len(row) >= 5 /\ ~opts.LaxMode /\ BareRegion =>
        /\ ~result.valid
        /\ c.Invalid = 1
        /\ result.diffLine = << >>
        /\ IF Token = Empty THEN result.invalidityType = EmptyNetwork
           ELSE IF ~ParsePrefixOK(Normalized(Token))
           THEN result.invalidityType = UnableToParseNetwork
           ELSE IF RefCity.err # ""
           THEN result.invalidityType = UnableToFindCityRecord
           ELSE /\ result.invalidityType = InvalidRegionCode
                /\ DOMAIN Samples = {InvalidRegionCode}
                /\ Samples[InvalidRegionCode].row
                       = Join([i \in 1..5 |-> TrimSpace(row[i])])

\* C7 witness: in strict mode the row 2a02:ecc0::/29,US,NJ,Parsippany, is
\* InvalidRegionCode against a record it would match in lax mode, with an
\* ISP database whose lookup would fail.
C7_Witness ==
    /\ Processed
    /\ ~opts.LaxMode
    /\ row = RowBareRegion
    /\ RefCity = CityRecord(sUS, <<sNJ>>, sParsippany, s34021)
    /\ ispdb = Answering(IspError)
    /\ result.invalidityType = InvalidRegionCode

\* C8: in lax mode a bare region code is never InvalidRegionCode; a row
\* that reaches the comparison has a region fragment exactly when its
\* region differs, case-insensitively, from the last subdivision of the
\* record (the empty string if there is none) for a bare code in lax mode,
\* and from country + "-" + that subdivision for a code with '-' in either
\* mode; the fragment shows what the region was compared with.
C8_LaxRegionComparison ==
    Processed /\ result.called =>
        /\ opts.LaxMode /\ BareRegion =>
               result.invalidityType # InvalidRegionCode
        /\ opts.LaxMode /\ BareRegion /\ result.valid =>
               /\ HasFragment("region") <=> ~EqualFold(Region, RefLast)
               /\ HasFragment("region") =>
                      FragmentOf("region").current = RefLast
        /\ HasChar(Region, "-") /\ result.valid =>
               /\ HasFragment("region") <=>
                      ~EqualFold(Region, RefCity.country \o <<"-">> \o RefLast)
               /\ HasFragment("region") =>
                      FragmentOf("region").current
                          = RefCity.country \o <<"-">> \o RefLast

\* C8 witness: in lax mode the region WBK matched a record whose
\* subdivisions are ENG, WBK.
C8_Witness ==
    /\ Processed
    /\ Len(row) = 5
    /\ opts.LaxMode
    /\ Region = sWBK
    /\ RefCity.subdivisions = <<sENG, sWBK>>
    /\ result.valid
    /\ result.diffLine # << >>
    /\ ~HasFragment("region")

Postal == TrimSpace(row[5])

\* C9: a row that reaches the comparison has a postal code fragment
\* exactly when its postal field is not empty after trimming and differs,
\* case-insensitively, from the record's postal code; a row with a
\* fragment is counted as a difference.
C9_PostalComparison ==
    Processed /\ result.called /\ result.valid =>
        /\ Blank(row[5]) => ~HasFragment("postal code")
        /\ HasFragment("postal code") <=>
               Postal # Empty /\ ~EqualFold(Postal, RefCity.postal)
        /\ HasFragment("postal code") =>
               /\ c.Differences = 1
               /\ diffLines = <<result.diffLine>>
               /\ FragmentOf("postal code").current = RefCity.postal
               /\ FragmentOf("postal code").suggested = Postal

\* C9 witness: a row with a blank postal code that otherwise matches a
\* record with postal code 34021 is no difference.
C9_Witness ==
    /\ Processed
    /\ Len(row) = 5
    /\ row[5] = sSpace
    /\ RefCity.postal = s34021
    /\ result.valid
    /\ result.diffLine = << >>
    /\ c.Differences = 0

\* C10 as claimed: the histogram grows only by a valid row that differs
\* and whose ISP lookup returned an AS number, by one for that number, and
\* stays empty without an ISP database.
C10_HistogramOnlyDifferingRows ==
    [][/\ asnCounts' # asnCounts =>
            result'.valid /\ result'.diffLine # << >>
       /\ ispFilename = "" => asnCounts' = << >>
      ]_vars

(***************************************************************************)
(* Properties of the file: samples and counters.                           *)
(***************************************************************************)
\* C11: the samples hold one message per kind, the message of the first
\* row of that kind.  A sample, once stored, is never changed or removed by
\* any later row, of its kind or of another; an invalid row stores a
\* sample only if its kind has none, and that sample is the message of this
\* row (its ordinal, its text); a valid row stores none.
C11_FirstSamplePerKind ==
    [][/\ \A k \in DOMAIN Samples :
              k \in DOMAIN c'.SampleInvalidRows
              /\ c'.SampleInvalidRows[k] = Samples[k]
       /\ DOMAIN c'.SampleInvalidRows \subseteq RowInvalidity
       /\ Cardinality(DOMAIN c'.SampleInvalidRows) <= c'.Invalid
       /\ delivered' = delivered + 1 /\ ~result'.valid =>
              /\ DOMAIN c'.SampleInvalidRows
                     = DOMAIN Samples \cup {result'.invalidityType}
              /\ result'.invalidityType \notin DOMAIN Samples =>
                     /\ c'.SampleInvalidRows[result'.invalidityType].line
                            = delivered'
                     /\ result'.called =>
                            c'.SampleInvalidRows[result'.invalidityType]
                                = InvalidRowMessage(delivered',
                                      result'.invalidityReason)
                     /\ ~result'.called =>
                            /\ c'.SampleInvalidRows[FewerFieldsThanExpected].got
                                   = Len(row')
                            /\ c'.SampleInvalidRows[FewerFieldsThanExpected].row
                                   = Join(row')
       /\ delivered' = delivered + 1 /\ result'.valid =>
              c'.SampleInvalidRows = Samples
      ]_vars

\* C11 witness: three invalid rows, the first and the third of the same
\* kind and the second of another; the samples are those of rows 1 and 2.
C11_Witness ==
    /\ pc = "done"
    /\ c.Invalid = 3
    /\ DOMAIN Samples = {FewerFieldsThanExpected, UnableToParseNetwork}
    /\ Samples[UnableToParseNetwork].line = 1
    /\ Samples[FewerFieldsThanExpected].line = 2
    /\ result.invalidityType = UnableToParseNetwork

\* C12: every row delivered adds one to Total and one to at most one of
\* Invalid and Differences, nothing else changes the counters, and so
\* Invalid + Differences never exceeds Total.
C12_InvalidOrDifference ==
    [][/\ delivered' = delivered + 1 =>
              /\ c'.Total = c.Total + 1
              /\ c'.Invalid \in {c.Invalid, c.Invalid + 1}
              /\ c'.Differences \in {c.Differences, c.Differences + 1}
              /\ ~(c'.Invalid = c.Invalid + 1
                   /\ c'.Differences = c.Differences + 1)
              /\ c'.Invalid = c.Invalid + 1 <=> ~result'.valid
       /\ delivered' = delivered =>
              /\ c'.Total = c.Total
              /\ c'.Invalid = c.Invalid
              /\ c'.Differences = c.Differences
       /\ c'.Invalid + c'.Differences <= c'.Total
      ]_vars

\* C12 witness: a file of three rows, one invalid, one a difference and one
\* neither.
C12_Witness ==
    /\ pc = "done"
    /\ c.Total = 3
    /\ c.Invalid = 1
    /\ c.Differences = 1

(***************************************************************************)
(* Properties of one row: the diff text and the fields beyond the fifth.   *)
(***************************************************************************)
\* the country, region and city of the row equal those of the record
OthersMatch ==
    /\ EqualFold(TrimSpace(row[2]), RefCity.country)
    /\ EqualFold(Region, IF HasChar(Region, "-")
                         THEN RefCity.country \o <<"-">> \o RefLast
                         ELSE RefLast)
    /\ EqualFold(TrimSpace(row[4]), RefCity.city)

\* C13 as claimed: a valid row with postal code 34021 against a record with
\* postal code 1060, all else matching, is one difference whose text shows
\* 34021 as the current and 1060 as the suggested postal code.
C13_PostalTextAsClaimed ==
    Processed /\ Len(row) >= 5 /\ result.valid /\ OthersMatch
    /\ Postal = s34021 /\ RefCity.postal = s1060 =>
        /\ c.Differences = 1
        /\ HasFragment("postal code")
        /\ FragmentOf("postal code").current = s34021
        /\ FragmentOf("postal code").suggested = s1060

\* C13, amended: such a row is one difference whose text is the header and
\* the postal code fragment, and the fragment shows the postal code of the
\* record (1060) as the current one and that of the row (34021) as the
\* suggested one; with the two codes exchanged (row 1060, record 34021, the
\* case of the test data) it shows 34021 as current and 1060 as suggested.
C13_PostalText ==
    Processed /\ Len(row) >= 5 /\ result.valid /\ OthersMatch =>
        /\ Postal = s34021 /\ RefCity.postal = s1060 =>
              /\ c.Differences = 1
              /\ diffLines = <<result.diffLine>>
              /\ HasFragment("postal code")
              /\ FragmentOf("postal code").current = s1060
              /\ FragmentOf("postal code").suggested = s34021
              /\ ~HasFragment("country")
              /\ ~HasFragment("region")
              /\ ~HasFragment("city")
        /\ Postal = s1060 /\ RefCity.postal = s34021 =>
              /\ c.Differences = 1
              /\ HasFragment("postal code")
              /\ FragmentOf("postal code").current = s34021
              /\ FragmentOf("postal code").suggested = s1060

\* C13 witness: the row 2a02:ecc0::/29,US,US-NJ,Parsippany,34021 was
\* compared with the record US, NJ, Parsippany, 1060 and is a difference.
C13_Witness ==
    /\ Processed
    /\ row = <<NetV6Test, sUS, sUSNJ, sParsippany, s34021>>
    /\ RefCity = CityRecord(sUS, <<sNJ>>, sParsippany, s1060)
    /\ result.valid
    /\ c.Differences = 1

\* what the loop body leaves for a row whose first five fields are r5
OutcomeOf(r5) ==
    LET v == verifyCorrection(r5, db, ispdb, << >>, opts)
        differs == v.valid /\ v.diffLine # << >>
    IN  [result |-> Verified(v),
         asnCounts |-> v.asnCounts,
         diffLines |-> IF differs THEN <<v.diffLine>> ELSE << >>,
         Total |-> 1,
         Invalid |-> IF v.valid THEN 0 ELSE 1,
         Differences |-> IF differs THEN 1 ELSE 0,
         samples |-> IF v.valid THEN << >>
                     ELSE v.invalidityType
                              :> InvalidRowMessage(1, v.invalidityReason)]

\* C16: a row of more than five fields leaves exactly what the row of its
\* first five fields leaves: the same classification and reason, diff
\* text, counters, samples and histogram; no message names a sixth field.
C16_ExtraFieldsIgnored ==
    Processed /\ Len(row) > 5 =>
        /\ result.called
        /\ \E o \in {OutcomeOf(SubSeq(row, 1, 5))} :
              /\ result = o.result
              /\ asnCounts = o.asnCounts
              /\ diffLines = o.diffLines
              /\ c.Total = o.Total
              /\ c.Invalid = o.Invalid
              /\ c.Differences = o.Differences
              /\ Samples = o.samples
        /\ \A k \in DOMAIN Samples :
              Samples[k].row \in {Empty,
                                  Join([i \in 1..5 |-> TrimSpace(row[i])])}

\* C16 witness: in strict mode the six-field row
\* 2a02:ecc0::/29,US,NJ,Parsippany,,extra is InvalidRegionCode and its
\* sample shows its first five fields.
C16_Witness ==
    /\ Processed
    /\ row = RowBareRegion \o <<sExtra>>
    /\ ~opts.LaxMode
    /\ result.invalidityType = InvalidRegionCode
    /\ InvalidRegionCode \in DOMAIN Samples
    /\ Samples[InvalidRegionCode].row = Join(RowBareRegion)

(***************************************************************************)
(* Properties of the file: rows that match the reference data.             *)
(***************************************************************************)
\* the record the city database holds for the network of the row r
RecordOf(r) == db[1][PrefixAddr(Normalized(TrimSpace(r[1])))]
LastOf(subdivisions) ==
    IF subdivisions = << >> THEN Empty ELSE subdivisions[Len(subdivisions)]

\* r has five fields or more, a network that parses and that both
\* databases answer, and a region code the mode accepts
WellFormed(r) ==
    /\ Len(r) >= 5
    /\ TrimSpace(r[1]) # Empty
    /\ ParsePrefixOK(Normalized(TrimSpace(r[1])))
    /\ RecordOf(r).err = ""
    /\ opts.LaxMode \/ TrimSpace(r[3]) = Empty \/ HasChar(TrimSpace(r[3]), "-")
    /\ ispdb # NilReader =>
           ispdb[1][PrefixAddr(Normalized(TrimSpace(r[1])))].err = ""

\* the fields of r equal those of the record, whatever the case of their
\* letters; an empty postal code equals any
MatchesRecord(r) ==
    /\ EqualFold(TrimSpace(r[2]), RecordOf(r).country)
    /\ EqualFold(TrimSpace(r[3]),
                 IF HasChar(TrimSpace(r[3]), "-")
                 THEN RecordOf(r).country \o <<"-">>
                          \o LastOf(RecordOf(r).subdivisions)
                 ELSE LastOf(RecordOf(r).subdivisions))
    /\ EqualFold(TrimSpace(r[4]), RecordOf(r).city)
    /\ TrimSpace(r[5]) = Empty
       \/ EqualFold(TrimSpace(r[5]), RecordOf(r).postal)

\* C14: a well-formed row that matches its record is valid, has an empty
\* diff text and adds to Total only: Differences, Invalid, the samples and
\* the diff lines stay as they are.  A file whose rows all did so ends
\* with Differences = 0, Invalid = 0, no diff line and, if it has a row,
\* no error.
C14_MatchingRow ==
    [][/\ delivered' = delivered + 1 /\ WellFormed(row')
          /\ MatchesRecord(row') =>
              /\ result'.valid
              /\ result'.diffLine = << >>
              /\ c' = [c EXCEPT !.Total = @ + 1]
              /\ diffLines' = diffLines
       /\ pc' = "done" /\ c'.Total > 0 /\ c'.Differences = 0
          /\ c'.Invalid = 0 =>
              /\ diffLines' = << >>
              /\ c'.SampleInvalidRows = << >>
              /\ err' = NoError
      ]_vars

\* C14 witness: without an ISP database, a file of three rows that match
\* their records, the last in lower case, ended with Total = 3 and nothing
\* else.
C14_Witness ==
    /\ pc = "done"
    /\ ispFilename = ""
    /\ row = RowMatchLower
    /\ c = [Total |-> 3, Differences |-> 0, Invalid |-> 0,
            SampleInvalidRows |-> << >>]
    /\ diffLines = << >>
    /\ err = NoError

(***************************************************************************)
(* Properties of the opening of the files.                                 *)
(***************************************************************************)
\* the encodings of one character that the bytes of WideBytes can form
Encodings ==
    {<<50>>}
    \cup {<<195, x>> : x \in {187, 191}}
    \cup {<<239, x, y>> : x, y \in {187, 191}}

\* data is a sequence of encoded characters
RECURSIVE Decodes(_)
Decodes(data) ==
    \/ data = << >>
    \/ \E k \in 1..3 :
          /\ Len(data) >= k
          /\ SubSeq(data, 1, k) \in Encodings
          /\ Decodes(SubSeq(data, k + 1, Len(data)))

\* data without a leading byte-order mark
AfterMark(data) ==
    IF Len(data) >= 3 /\ data[1] = 239 /\ data[2] = 187 /\ data[3] = 191
    THEN SubSeq(data, 4, Len(data))
    ELSE data

\* the file could not be read at all
NotRead(e) == e.msg \in {"unable to open file", "unable to open"}

\* C15: a geofeed that was read and whose content, after a leading
\* byte-order mark is taken off, is not UTF-8 makes ProcessGeofeed return
\* ErrNotUTF8, and only such a file does; it returns before a database is
\* opened and before a row is read, with the results of NewCheckResult, no
\* diff line and no histogram entry; content that is UTF-8 goes on to the
\* loop without its mark.  ErrNotUTF8 is none of the two aggregate errors.
C15_NotUTF8FailsFast ==
    [][pc = "start" /\ pc' # "start" =>
        /\ ~NotRead(err') =>
              (err'.msg = ErrNotUTF8 <=> ~Decodes(AfterMark(geofeedData)))
        /\ err'.msg = ErrNotUTF8 =>
              /\ err' = Error(ErrNotUTF8, "")
              /\ pc' = "fatal"
              /\ c' = NewCheckResult
              /\ diffLines' = << >>
              /\ asnCounts' = << >>
              /\ delivered' = 0
              /\ result' = NotVerified
              /\ db' = NilReader
              /\ ispdb' = NilReader
        /\ pc' = "loop" => geofeedData' = AfterMark(geofeedData)
        /\ ErrNotUTF8 \notin {ErrInvalidGeofeed, ErrEmptyGeofeed}
      ]_vars

\* C15 witness: a file that holds a byte-order mark and then the first
\* byte of a two-byte encoding alone was refused with ErrNotUTF8; what is
\* left of it is that byte.
C15_Witness ==
    /\ pc = "fatal"
    /\ err.msg = ErrNotUTF8
    /\ geofeedData = <<195>>
    /\ c = NewCheckResult
    /\ db = NilReader

\* the file paths the text of the error e shows
PathsIn(e) == {e.path, e.cause.path} \ {""}

\* C19 as claimed: with HideFilePathsInErrorMessages no error
\* ProcessGeofeed returns shows a file path, and no sample ever does.
C19_NoPathWhenHidden ==
    /\ opts.HideFilePathsInErrorMessages => PathsIn(err) = {}
    /\ \A k \in DOMAIN Samples :
          Samples[k].err \notin {geofeedFilename, mmdbFilename, ispFilename}

(***************************************************************************)
(* Properties of the command.                                              *)
(***************************************************************************)
\* run has returned after ProcessGeofeed did
Reported == pc = "exit" /\ conf # NoConfig

\* C17: when ProcessGeofeed has succeeded the command prints the summary
\* line and after it one line for each AS number of the histogram, with
\* the count the histogram has for it, and nothing else; no count is
\* greater than the count of the line before it.
C17_AsnLinesDescending ==
    Reported /\ err = NoError =>
        /\ exit = 0
        /\ Len(stdout) = 1 + Cardinality(DOMAIN asnCounts)
        /\ stdout[1] = OutputLine("summary", diffLines, c.Total, c.Differences)
        /\ \A i \in 2..Len(stdout) :
              /\ stdout[i].kind = "ASN"
              /\ stdout[i].n \in DOMAIN asnCounts
              /\ stdout[i].count = asnCounts[stdout[i].n]
        /\ \A i, j \in 2..Len(stdout) : stdout[i].n = stdout[j].n => i = j
        /\ \A i \in 2..(Len(stdout) - 1) : stdout[i].count >= stdout[i + 1].count

\* C17 witness: three rows, two of AS 64512 and one of AS 64513, were
\* reported as a summary, then AS 64512 with count 2, then AS 64513 with
\* count 1.
C17_Witness ==
    /\ Reported
    /\ exit = 0
    /\ Len(stdout) = 3
    /\ stdout[2] = OutputLine("ASN", << >>, 64512, 2)
    /\ stdout[3] = OutputLine("ASN", << >>, 64513, 1)

\* the diff text d is part of what was printed
Printed(d) ==
    \E i \in 1..Len(stdout) :
        /\ stdout[i].kind = "summary"
        /\ \E k \in 1..Len(stdout[i].body) : stdout[i].body[k] = d

\* the sample of kind k was logged
Logged(k) ==
    \E i \in 1..Len(log) :
        log[i] = OutputLine("sample", <<Samples[k]>>, k, 0)

\* C18 as claimed: when ProcessGeofeed returned ErrInvalidGeofeed or
\* ErrEmptyGeofeed the command prints the diff text of every row that
\* differs and logs the sample of every kind, and ends with a status that
\* is not 0; when it returned another error the command prints nothing.
C18_PartialOutputOnAggregateError ==
    Reported /\ err # NoError =>
        /\ exit # 0
        /\ err.msg \in {ErrInvalidGeofeed, ErrEmptyGeofeed} =>
              /\ \A i \in 1..Len(diffLines) : Printed(diffLines[i])
              /\ \A k \in DOMAIN Samples : Logged(k)
        /\ err.msg \notin {ErrInvalidGeofeed, ErrEmptyGeofeed} =>
              stdout = << >>

(***************************************************************************)
(* Properties of parseFlags.  Settings reads the arguments as a list of    *)
(* flags, each string flag followed by its value: the set of the pairs of  *)
(* a flag and the value given for it, with the pair <<"?", "">> if the     *)
(* arguments cannot be read so.                                            *)
(***************************************************************************)
RECURSIVE Settings(_)
Settings(rest) ==
    IF rest = << >> THEN {}
    ELSE IF /\ Head(rest) \in {"-gf", "-db", "-isp"}
            /\ Len(rest) >= 2
            /\ rest[2] \in {"", geofeedFilename, mmdbFilename}
    THEN {<<Head(rest), rest[2]>>} \cup Settings(SubSeq(rest, 3, Len(rest)))
    ELSE IF Head(rest) = "-db="
    THEN {<<"-db", "">>} \cup Settings(Tail(rest))
    ELSE IF Head(rest) \in {"-lax", "-empty-ok", "-V"}
    THEN {<<Head(rest), "true">>} \cup Settings(Tail(rest))
    ELSE IF Head(rest) = "--lax=false"
    THEN {<<"-lax", "false">>} \cup Settings(Tail(rest))
    ELSE {<<"?", "">>}

\* every argument is a flag that is defined or the value of one, and no
\* flag is given two values
Unambiguous ==
    /\ <<"?", "">> \notin Settings(args)
    /\ \A s, t \in Settings(args) : s[1] = t[1] => s = t

\* the value given for the flag, or else its default
Given(flag, default) ==
    IF \E s \in Settings(args) : s[1] = flag
    THEN (CHOOSE s \in Settings(args) : s[1] = flag)[2]
    ELSE default

\* what the claim says of parseFlags, for the values given for the flags
RequiredFlagsOutcome ==
    IF Given("-gf", "") = "" \/ Given("-db", DefaultDB) = ""
    THEN /\ conf = NoConfig
         /\ pc = "exit"
         /\ exit = 1
         /\ log = <<OutputLine("fatal",
                       <<IF Given("-gf", "") # "" THEN "-db is required"
                         ELSE IF Given("-db", DefaultDB) # ""
                         THEN "-gf is required"
                         ELSE "-gf is required and -db can not be an empty string">>,
                       0, 0)>>
    ELSE /\ conf = <<[gf |-> Given("-gf", ""),
                      db |-> Given("-db", DefaultDB),
                      isp |-> Given("-isp", ""),
                      laxMode |-> Given("-lax", "false") = "true",
                      emptyOK |-> Given("-empty-ok", "false") = "true"]>>
         /\ pc = "start"
         /\ exit = Running
         /\ log = << >>

\* C20 as claimed: whatever flags are given, in whatever order, parseFlags
\* returns no config and the error of the case when -gf is missing or -db
\* is empty, and otherwise the config of the values given and the
\* defaults.
C20_RequiredFlagsAsClaimed ==
    pc # "main" /\ Unambiguous => RequiredFlagsOutcome

\* C20, amended: so it is when -V is not given.  The outcome depends on
\* the set of the flags given and their values only, not on their order.
C20_RequiredFlags ==
    pc # "main" /\ Unambiguous /\ Given("-V", "false") = "false" =>
        RequiredFlagsOutcome

\* C20 witness: the arguments -db "" were refused for both reasons.
C20_Witness ==
    /\ pc = "exit"
    /\ args = <<"-db", "">>
    /\ conf = NoConfig
    /\ log = <<OutputLine("fatal",
                  <<"-gf is required and -db can not be an empty string">>,
                  0, 0)>>

(***************************************************************************)
(* Properties of one row: the order of the checks.                         *)
(***************************************************************************)
\* the record the ISP database answers every address with
RefIsp == ispdb[1][AddrV4Test]

\* the first check the row fails, in the order of the checks, or
\* NoInvalidity if it passes them all
FirstFailingCheck ==
    IF Len(row) < 5 THEN FewerFieldsThanExpected
    ELSE IF Token = Empty THEN EmptyNetwork
    ELSE IF ~ParsePrefixOK(Normalized(Token)) THEN UnableToParseNetwork
    ELSE IF RefCity.err # "" THEN UnableToFindCityRecord
    ELSE IF BareRegion /\ ~opts.LaxMode THEN InvalidRegionCode
    ELSE IF ispdb # NilReader /\ RefIsp.err # "" THEN UnableToFindISPRecord
    ELSE NoInvalidity

\* the text of the reason of each kind
ReasonText ==
    (FewerFieldsThanExpected :> "expected fields but got")
    @@ (EmptyNetwork :> "network field is empty")
    @@ (UnableToParseNetwork :> "unable to parse network")
    @@ (UnableToFindCityRecord :> "unable to find city record")
    @@ (InvalidRegionCode
          :> "invalid ISO 3166-2 region code format in strict (default) mode")
    @@ (UnableToFindISPRecord :> "unable to find ISP record")

\* C21: a row is invalid exactly when it fails one of the six checks, and
\* it is then reported under one kind, with one reason and one sample: that
\* of the first check it fails in the order FewerFieldsThanExpected,
\* EmptyNetwork, UnableToParseNetwork, UnableToFindCityRecord,
\* InvalidRegionCode, UnableToFindISPRecord.  A row whose network does not
\* parse or whose city lookup fails is never InvalidRegionCode, and a row
\* the strict region gate rejects is InvalidRegionCode whatever the ISP
\* database would answer, the histogram left as it was.
C21_FirstFailingCheckWins ==
    Processed =>
        /\ result.valid <=> FirstFailingCheck = NoInvalidity
        /\ ~result.valid =>
              /\ result.invalidityType = FirstFailingCheck
              /\ c.Invalid = 1
              /\ DOMAIN Samples = {FirstFailingCheck}
              /\ Samples[FirstFailingCheck].text = ReasonText[FirstFailingCheck]
              /\ result.diffLine = << >>
        /\ result.valid => c.Invalid = 0 /\ Samples = << >>
        /\ Len(row) >= 5
           /\ (~ParsePrefixOK(Normalized(Token)) \/ RefCity.err # "") =>
              result.invalidityType # InvalidRegionCode
        /\ result.invalidityType = InvalidRegionCode =>
              /\ asnCounts = << >>
              /\ result.invalidityReason.err = ""

\* C21 witness: in strict mode a row with a network that does not parse
\* and a bare region code, against a city database and an ISP database
\* whose lookups fail, was reported as UnableToParseNetwork only.
C21_Witness ==
    /\ Processed
    /\ Len(row) = 5
    /\ Token = sBadNet
    /\ BareRegion
    /\ ~opts.LaxMode
    /\ RefCity = CityError
    /\ ispdb = Answering(IspError)
    /\ DOMAIN Samples = {UnableToParseNetwork}

(***************************************************************************)
(* Properties of one row: the diff text.                                   *)
(***************************************************************************)
\* the place of each line in a diff text
LabelRank ==
    ("Found a potential improvement" :> 0)
    @@ ("country" :> 1) @@ ("region" :> 2) @@ ("city" :> 3)
    @@ ("postal code" :> 4)
    @@ ("AS Number" :> 5) @@ ("AS Name" :> 6) @@ ("ISP Name" :> 7)

\* what the region of the row is compared with
RefRegion ==
    IF HasChar(Region, "-") THEN RefCity.country \o <<"-">> \o RefLast
    ELSE RefLast

\* the value of the row and the value of the record for each field
RowValue ==
    ("country" :> TrimSpace(row[2])) @@ ("region" :> Region)
    @@ ("city" :> TrimSpace(row[4])) @@ ("postal code" :> Postal)
RefValue ==
    ("country" :> RefCity.country) @@ ("region" :> RefRegion)
    @@ ("city" :> RefCity.city) @@ ("postal code" :> RefCity.postal)

\* the field of the row differs from that of the record; an empty postal
\* code differs from none
Mismatch(label) ==
    /\ ~EqualFold(RowValue[label], RefValue[label])
    /\ label = "postal code" => Postal # Empty

\* C22: the diff text of a valid row is empty when no field mismatches;
\* otherwise it starts with a header that names the normalized network,
\* has one fragment for each field that mismatches and none for a field
\* that matches, in the order country, region, city, postal code, each
\* showing the value of the record as the current one and the value of the
\* row as the suggested one, and the AS lines come after the fragments.
C22_DiffFragments ==
    Processed /\ result.called /\ result.valid =>
        /\ result.diffLine # << >> <=>
               \E label \in DOMAIN RowValue : Mismatch(label)
        /\ result.diffLine # << >> =>
              /\ result.diffLine[1].label = "Found a potential improvement"
              /\ result.diffLine[1].suggested = Normalized(Token)
              /\ \A i \in 1..Len(result.diffLine) :
                     result.diffLine[i].label \in DOMAIN LabelRank
              /\ \A i, j \in 1..Len(result.diffLine) :
                     i < j => LabelRank[result.diffLine[i].label]
                                  < LabelRank[result.diffLine[j].label]
              /\ \A label \in DOMAIN RowValue :
                    /\ HasFragment(label) <=> Mismatch(label)
                    /\ HasFragment(label) =>
                          /\ FragmentOf(label).current = RefValue[label]
                          /\ FragmentOf(label).suggested = RowValue[label]

\* C22 witness: a row whose country and city differ from the record and
\* whose region and postal code match it has a header, a country fragment,
\* a city fragment and three AS lines, in this order.
C22_Witness ==
    /\ Processed
    /\ result.valid
    /\ Len(result.diffLine) = 6
    /\ result.diffLine[2].label = "country"
    /\ result.diffLine[3].label = "city"
    /\ result.diffLine[4].label = "AS Number"
    /\ Mismatch("country")
    /\ ~Mismatch("region")
    /\ ~Mismatch("postal code")
    /\ Postal # Empty

\* C23 as claimed: a diff text has AS lines only if the row differs and the
\* ISP lookup returned an AS number above 0, each line only if its value
\* is not empty; a row that differs and whose AS number is 0 has no AS Name
\* and no ISP Name line, and a row that does not differ has no AS line.
C23_ASLinesOnlyWithASN ==
    Processed /\ result.called /\ result.valid =>
        /\ \A label \in {"AS Number", "AS Name", "ISP Name"} :
              HasFragment(label) =>
                  /\ ispdb # NilReader
                  /\ RefIsp.AutonomousSystemNumber > 0
        /\ HasFragment("AS Name") =>
              FragmentOf("AS Name").suggested # Empty
        /\ HasFragment("ISP Name") =>
              FragmentOf("ISP Name").suggested # Empty
        /\ ~(\E label \in DOMAIN RowValue : Mismatch(label)) =>
              result.diffLine = << >>

(***************************************************************************)
(* Properties of one row: with and without an ISP database.                *)
(***************************************************************************)
\* the header and the fragments of a diff text, without its AS lines
IsGeoLine(l) == LabelRank[l.label] <= LabelRank["postal code"]
GeoLines(lines) == SelectSeq(lines, IsGeoLine)

\* what verifyCorrection returns for the row without an ISP database
WithoutISP ==
    verifyCorrection(SubSeq(row, 1, 5), db, NilReader, << >>, opts)

\* C24 as claimed: with an ISP database a row is classified as it is
\* without one, valid or invalid and under the same kind, and has the same
\* header and fragments.
C24_SameWithOrWithoutISPAsClaimed ==
    Processed /\ result.called /\ ispdb # NilReader =>
        \E v \in {WithoutISP} :
            /\ result.valid = v.valid
            /\ result.invalidityType = v.invalidityType
            /\ GeoLines(result.diffLine) = GeoLines(v.diffLine)

\* C24, amended: with an ISP database whose lookup does not fail for the
\* row, or is not reached, the row is classified as it is without one,
\* with the same kind and reason, and its diff text is the diff text it has
\* without one with the AS lines added at the end; without an ISP database
\* there is no AS line and the histogram stays empty.  A row that passes
\* every other check and whose ISP lookup fails is invalid under
\* UnableToFindISPRecord with the database and valid without it.
C24_SameWithOrWithoutISP ==
    Processed /\ result.called =>
        \E v \in {WithoutISP}, first \in {FirstFailingCheck} :
            /\ ispdb # NilReader /\ first # UnableToFindISPRecord =>
                  /\ result.valid = v.valid
                  /\ result.invalidityType = v.invalidityType
                  /\ result.invalidityReason = v.invalidityReason
                  /\ GeoLines(result.diffLine) = v.diffLine
                  /\ c.Differences = (IF v.diffLine # << >> THEN 1 ELSE 0)
            /\ ispdb # NilReader /\ first = UnableToFindISPRecord =>
                  /\ ~result.valid
                  /\ result.invalidityType = UnableToFindISPRecord
                  /\ v.valid
            /\ ispdb = NilReader =>
                  /\ GeoLines(result.diffLine) = result.diffLine
                  /\ asnCounts = << >>
                  /\ result.invalidityType # UnableToFindISPRecord

\* C24 witness: a row that differs was verified with an ISP database that
\* knows its AS number; its diff text ends with AS lines that its diff text
\* without the database does not have.
C24_Witness ==
    /\ Processed
    /\ ispdb = Answering(IspRecord(64512, sNet, sIsp))
    /\ result.valid
    /\ HasFragment("AS Number")
    /\ Len(result.diffLine) = Len(WithoutISP.diffLine) + 3
    /\ asnCounts # << >>

(***************************************************************************)
(* Properties of the command: an error of the CSV reader.                  *)
(***************************************************************************)
\* the error ProcessGeofeed returns for an error of csvReader.Read
IsReadError(e) == e.cause = CsvParseError

\* C25: an error of the CSV reader ends the loop at once.  The step that
\* meets it counts and classifies no row and returns the read error, which
\* is neither ErrInvalidGeofeed nor ErrEmptyGeofeed, whatever rows came
\* before; no row is read, counted or classified after it; and the command
\* then prints nothing on its standard output and logs no count and no
\* sample, only the fatal error, and ends with status 1.
C25_ReadErrorIsFatal ==
    [][/\ pc = "loop" /\ pc' = "fatal" =>
              /\ IsReadError(err')
              /\ ~ErrorsIs(err', ErrInvalidGeofeed)
              /\ ~ErrorsIs(err', ErrEmptyGeofeed)
              /\ c' = c
              /\ delivered' = delivered
              /\ diffLines' = diffLines
              /\ asnCounts' = asnCounts
       /\ pc \in {"fatal", "exit"} /\ IsReadError(err) =>
              /\ pc' = "exit"
              /\ err' = err
              /\ c' = c
              /\ delivered' = delivered
              /\ row' = row
              /\ result' = result
              /\ diffLines' = diffLines
              /\ asnCounts' = asnCounts
              /\ stdout' = << >>
              /\ exit' = 1
              /\ Len(log') = 1
              /\ log'[1].kind = "fatal"
              /\ IsReadError(log'[1].body[2])
      ]_vars

\* C25 witness: after an invalid row and a row that differs the reader
\* met an error; the command printed nothing and logged the fatal error
\* only.
C25_Witness ==
    /\ pc = "exit"
    /\ IsReadError(err)
    /\ c.Invalid = 1
    /\ c.Differences = 1
    /\ diffLines # << >>
    /\ stdout = << >>
    /\ Len(log) = 1
    /\ exit = 1

(***************************************************************************)
(* Properties of the file: the diff lines.                                 *)
(***************************************************************************)
\* C26: there are as many diff lines as Differences and none is empty.
\* The diff lines are in the order of their rows: a row that is valid and
\* differs puts its diff text after those of all earlier rows, at the
\* moment it is read, and no other step adds, removes, changes or moves a
\* diff line.
C26_DiffLinesInFileOrder ==
    [][/\ Len(diffLines') = c'.Differences
       /\ \A i \in 1..Len(diffLines') : diffLines'[i] # << >>
       /\ IF delivered' = delivered + 1 /\ result'.valid
             /\ result'.diffLine # << >>
          THEN diffLines' = Append(diffLines, result'.diffLine)
          ELSE diffLines' = diffLines
       /\ delivered' = delivered + 1 /\ result'.called /\ result'.valid =>
              result'.diffLine
                  = verifyCorrection(SubSeq(row', 1, 5), db, ispdb,
                                     asnCounts, opts).diffLine
      ]_vars

\* C26 witness: a file of a row that differs in its postal code, an
\* invalid row and a row that differs in its city has two diff lines, that
\* of the first row first.
C26_Witness ==
    /\ pc = "done"
    /\ c.Total = 3
    /\ c.Invalid = 1
    /\ c.Differences = 2
    /\ row = RowCityDiffers
    /\ Len(diffLines) = 2
    /\ diffLines[2] = result.diffLine
    /\ diffLines[1][1].suggested = NetV6Test
    /\ diffLines[1] # diffLines[2]

(***************************************************************************)
(* Properties of the file: the samples and the count of invalid rows.      *)
(***************************************************************************)
\* the final test with its second disjunct left out
FinalErrorByInvalidOnly(check, o) ==
    IF check.Total = 0 /\ ~o.EmptyOK
    THEN Error(ErrEmptyGeofeed, "")
    ELSE IF check.Invalid > 0
    THEN Error(ErrInvalidGeofeed, "")
    ELSE NoError

\* C27: Invalid is above 0 exactly when there is a sample.  The kinds that
\* have a sample are the kinds of the invalid rows read so far: an invalid
\* row adds its kind, one of the six, and nothing else adds or removes
\* one; the kind -1 of a valid row never has a sample.  There are at most
\* Invalid and at most six samples, and the final test gives what it
\* would give without its second disjunct.
C27_SamplesIffInvalid ==
    [][/\ c'.Invalid > 0 <=> DOMAIN c'.SampleInvalidRows # {}
       /\ DOMAIN c'.SampleInvalidRows \subseteq RowInvalidity
       /\ NoInvalidity \notin DOMAIN c'.SampleInvalidRows
       /\ Cardinality(DOMAIN c'.SampleInvalidRows) <= c'.Invalid
       /\ Cardinality(DOMAIN c'.SampleInvalidRows) <= 6
       /\ IF delivered' = delivered + 1 /\ ~result'.valid
          THEN /\ result'.invalidityType \in RowInvalidity
               /\ DOMAIN c'.SampleInvalidRows
                      = DOMAIN Samples \cup {result'.invalidityType}
               /\ c'.Invalid = c.Invalid + 1
          ELSE /\ DOMAIN c'.SampleInvalidRows = DOMAIN Samples
               /\ c'.Invalid = c.Invalid
       /\ FinalError(c', opts') = FinalErrorByInvalidOnly(c', opts')
       /\ pc' = "done" => err' = FinalErrorByInvalidOnly(c', opts')
      ]_vars

\* C27 witness: a file of two rows with an empty network and a row whose
\* ISP lookup failed ended with Invalid = 3, two samples and
\* ErrInvalidGeofeed.
C27_Witness ==
    /\ pc = "done"
    /\ c.Invalid = 3
    /\ DOMAIN Samples = {EmptyNetwork, UnableToFindISPRecord}
    /\ err.msg = ErrInvalidGeofeed

(***************************************************************************)
(* Properties of one row: strict mode and lax mode.                        *)
(***************************************************************************)
\* what verifyCorrection returns for the row in strict and in lax mode
InMode(lax) ==
    verifyCorrection(SubSeq(row, 1, 5), db, ispdb, << >>,
                     [opts EXCEPT !.LaxMode = lax])
StrictResult == InMode(FALSE)
LaxResult == InMode(TRUE)

\* C28 as claimed: a row invalid in lax mode is invalid under the same kind
\* in strict mode; the rows invalid in strict mode only are exactly the
\* rows strict mode reports as InvalidRegionCode; and a row strict mode
\* does not report as InvalidRegionCode gets the same result in both modes.
C28_LaxRelaxesStrictAsClaimed ==
    Processed /\ Len(row) >= 5 =>
        \E s \in {StrictResult}, l \in {LaxResult} :
            /\ ~l.valid =>
                  /\ ~s.valid
                  /\ s.invalidityType = l.invalidityType
            /\ ~s.valid /\ l.valid <=> s.invalidityType = InvalidRegionCode
            /\ s.invalidityType # InvalidRegionCode => s = l

\* C28, amended: a row invalid in lax mode is invalid in strict mode, under
\* the same kind and reason unless it has a bare region code and its ISP
\* lookup fails: that row is UnableToFindISPRecord in lax mode and
\* InvalidRegionCode in strict mode.  A row invalid in strict mode only
\* is InvalidRegionCode, and an InvalidRegionCode row is valid in lax mode
\* unless its ISP lookup fails.  A row strict mode does not report as
\* InvalidRegionCode gets the same result, diff text and histogram in both
\* modes, and so do a row of fewer than five fields and the final test.
C28_LaxRelaxesStrict ==
    Processed =>
        /\ Len(row) < 5 => result = NotVerified
        /\ Len(row) >= 5 =>
              \E s \in {StrictResult}, l \in {LaxResult} :
                  /\ result = Verified(IF opts.LaxMode THEN l ELSE s)
                  /\ asnCounts = (IF opts.LaxMode THEN l ELSE s).asnCounts
                  /\ ~l.valid => ~s.valid
                  /\ ~l.valid
                     /\ ~(BareRegion
                          /\ l.invalidityType = UnableToFindISPRecord) =>
                        s = l
                  /\ ~l.valid /\ BareRegion
                     /\ l.invalidityType = UnableToFindISPRecord =>
                        s.invalidityType = InvalidRegionCode
                  /\ ~s.valid /\ l.valid =>
                        s.invalidityType = InvalidRegionCode
                  /\ s.invalidityType = InvalidRegionCode =>
                        l.valid \/ l.invalidityType = UnableToFindISPRecord
                  /\ s.invalidityType # InvalidRegionCode => s = l
        /\ FinalError(c, [opts EXCEPT !.LaxMode = TRUE])
               = FinalError(c, [opts EXCEPT !.LaxMode = FALSE])

\* C28 witness: in lax mode the row 2a02:ecc0::/29,US,NJ,Parsippany, is
\* valid and matches its record, with an AS number counted; in strict mode
\* it is InvalidRegionCode.
C28_Witness ==
    /\ Processed
    /\ opts.LaxMode
    /\ row = RowBareRegion
    /\ RefCity = CityRecord(sUS, <<sNJ>>, sParsippany, s34021)
    /\ ispdb = Answering(IspRecord(64512, sNet, sIsp))
    /\ result.valid
    /\ result.diffLine = << >>
    /\ StrictResult.invalidityType = InvalidRegionCode

(***************************************************************************)
(* Properties of one row: an empty region.                                 *)
(***************************************************************************)
\* C29: a row whose region is empty after trimming is never
\* InvalidRegionCode, in strict mode or in lax mode.  If it is valid, it
\* has a region fragment exactly when the last subdivision of the record
\* is not empty; the fragment shows that subdivision, without the country
\* before it, as the current region and the empty string as the suggested
\* one, and the row is counted as a difference.  An empty postal code, by
\* contrast, never has a fragment.
C29_EmptyRegionCompared ==
    Processed /\ result.called /\ Region = Empty =>
        /\ result.invalidityType # InvalidRegionCode
        /\ result.valid =>
              /\ HasFragment("region") <=> RefLast # Empty
              /\ HasFragment("region") =>
                    /\ FragmentOf("region").current = RefLast
                    /\ FragmentOf("region").suggested = Empty
                    /\ c.Differences = 1
                    /\ diffLines = <<result.diffLine>>
              /\ Postal = Empty => ~HasFragment("postal code")

\* C29 witness: in strict mode the row 2a02:ecc0::/29,US,,Parsippany, was
\* compared with the record US, NJ, Parsippany, 34021; its diff text is
\* the header and a region fragment with NJ as the current region.
C29_Witness ==
    /\ Processed
    /\ ~opts.LaxMode
    /\ ispdb = NilReader
    /\ row = <<NetV6Test, sUS, Empty, sParsippany, Empty>>
    /\ RefCity = CityRecord(sUS, <<sNJ>>, sParsippany, s34021)
    /\ result.valid
    /\ Len(result.diffLine) = 2
    /\ result.diffLine[2] = Line("region", sNJ, Empty, 0)
    /\ c.Differences = 1

(***************************************************************************)
(* Properties of the file: what an invalid row changes.                    *)
(***************************************************************************)
\* C30: the iteration of a row that is invalid, under any of the six
\* kinds, adds one to Total and one to Invalid and, if its kind has no
\* sample yet, stores the sample of that kind; it leaves Differences, the
\* diff lines, the histogram and every sample already stored as they were,
\* and the loop goes on.
C30_InvalidRowFrame ==
    [][delivered' = delivered + 1 /\ ~result'.valid =>
          /\ result'.invalidityType \in RowInvalidity
          /\ c'.Total = c.Total + 1
          /\ c'.Invalid = c.Invalid + 1
          /\ c'.Differences = c.Differences
          /\ diffLines' = diffLines
          /\ asnCounts' = asnCounts
          /\ \A k \in DOMAIN Samples :
                 /\ k \in DOMAIN c'.SampleInvalidRows
                 /\ c'.SampleInvalidRows[k] = Samples[k]
          /\ DOMAIN c'.SampleInvalidRows
                 = DOMAIN Samples \cup {result'.invalidityType}
          /\ result'.diffLine = << >>
          /\ pc' = pc
          /\ err' = err
      ]_vars

\* C30 witness: after a row that differs, with its AS number counted, and
\* a row with a bare region code, a second row with a bare region code was
\* read in strict mode: one sample, one difference, the histogram as the
\* first row left it.
C30_Witness ==
    /\ pc = "loop"
    /\ ~opts.LaxMode
    /\ c.Total = 3
    /\ c.Invalid = 2
    /\ c.Differences = 1
    /\ row = RowBareRegion
    /\ ~result.valid
    /\ DOMAIN Samples = {InvalidRegionCode}
    /\ Samples[InvalidRegionCode].line = 2
    /\ Len(diffLines) = 1
    /\ asnCounts = (64512 :> 1)

====
